---- MODULE Spec2Model ----
(***************************************************************************)
(* Model of the passive Telegram monitor: the message handler              *)
(* (src/bot/observer.py), the SQLite store (src/bot/logger.py) and the     *)
(* periodic scheduler (src/main.py, src/bot/webhook.py,                    *)
(* src/bot/summarizer.py).                                                 *)
(*                                                                         *)
(* Every `await` of the code is a suspension point of the cooperative      *)
(* scheduler; an action of the model is the code between two suspension    *)
(* points that touch shared state (the store tables, the module globals).  *)
(* The awaits that precede the first shared access of a handler            *)
(* (event.get_sender, event.get_chat, client.get_entity) touch no shared   *)
(* state and are folded into the step that follows them.                   *)
(*                                                                         *)
(* Every store function of logger.py catches its own exceptions; a store   *)
(* operation therefore either commits or fails and answers its fallback    *)
(* value, which the parameter `ok` of the store operators selects.         *)
(***************************************************************************)
EXTENDS Integers, FiniteSets, Sequences, TLC

\* ------------------------------------------------------------------ bounds

\* Number of handle_new_message invocations that may be in flight at once.
NumHandlers == 2

\* Message ids the event source delivers in each chat: 1..MaxMsgId.
MaxMsgId == 1

\* The clock runs from 0 to MaxClock.
MaxClock == 2

\* ------------------------------------------------------ program constants

OWNER_USER_ID == 1137119534

\* Python's None, for an absent sender and for the unset _BOT_USER_ID.
None == 0

\* ------------------------------------------------------------ input sets

\* Users other than the owner that appear as senders, as resolved entities
\* and as notification targets.
OtherUsers == {7}

Users == {OWNER_USER_ID} \cup OtherUsers

\* event.chat_id of the chats that deliver events: the private chat with
\* user 7 and a channel (a marked, negative peer id).
ChatIds == {7, -1005}

\* entity.id of what client.get_entity can resolve a reference to: user 7
\* and the channel's bare id.
EntityIds == {7, 5}

\* event.chat_id of the events of the chat that get_entity resolves to
\* entity_id: the id itself for a user, the marked id for the channel.
chat_id_of(entity_id) == IF entity_id = 5 THEN -1005 ELSE entity_id

\* Ids the account itself may have (client.get_me().id): the owner's account
\* or another user's.
SelfIds == {OWNER_USER_ID, 7}

MsgIds == 1..MaxMsgId

Handlers == 1..NumHandlers

\* The twelve commands of the handler's if/elif chain.
Commands ==
    { "/stop_forwarding", "/start_forwarding", "/summary_today",
      "/monitor_add", "/monitor_remove", "/monitor_list", "/monitor_clear",
      "/query", "/help", "/notify_add", "/notify_remove", "/notify_list" }

\* First tokens as typed: the commands, two of them in another letter case,
\* a plain word, a near miss and the empty text of a media-only message.
PlainTokens == {"hello", "/stop", ""}

Tokens == Commands \cup {"/STOP_FORWARDING", "/Notify_Add"} \cup PlainTokens

\* The argument blob after the first token: absent, a username reference, or
\* a string of digits.
Args == {"", "@ref", "7", "1137119534"}

\* str.lower() on the first token.
Lower(tok) ==
    CASE tok = "/STOP_FORWARDING" -> "/stop_forwarding"
      [] tok = "/Notify_Add" -> "/notify_add"
      [] OTHER -> tok

\* int(args): the digit strings parse, anything else raises ValueError.
IsInt(arg) == arg \in {"7", "1137119534"}

IntOf(arg) ==
    CASE arg = "7" -> 7
      [] arg = "1137119534" -> 1137119534
      [] OTHER -> None

\* Outcomes of one client.send_message in the fan-out loop.
SendOutcomes == {"ok", "blocked", "flood", "error"}

\* ------------------------------------------------------------------ state

VARIABLES
    messages,            \* rows of table messages
    monitored,           \* chat_id column of table monitored_chats
    targets,             \* rows of table notification_targets
    is_forwarding_active,\* module global of observer.py
    botUserId,           \* module global _BOT_USER_ID of observer.py
    handlers,            \* the handle_new_message invocations, by slot
    clock,               \* the time, datetime.utcnow()
    last_check_time,     \* local of periodic_task_scheduler
    sched,               \* the other locals of periodic_task_scheduler
    lastCall,            \* history: the last direct call of a target operation
    tasks                \* the asyncio tasks of main.py and where each stands

vars == <<messages, monitored, targets, is_forwarding_active, botUserId,
          handlers, clock, last_check_time, sched, lastCall, tasks>>

\* What the handler leaves alone and what the scheduler leaves alone.
schedVars == <<clock, last_check_time, sched, lastCall, tasks>>

observerVars == <<monitored, targets, is_forwarding_active, botUserId, handlers,
                  lastCall, tasks>>

NoEvent ==
    [chat |-> None, mid |-> None, sender |-> None, token |-> "", arg |-> "",
     date |-> None]

\* A slot with no invocation running.
IdleHandler ==
    [pc |-> "idle", ev |-> NoEvent, target_ids |-> {}, remaining |-> {},
     successful_sends |-> 0, result |-> "", storeError |-> FALSE,
     scopeReadFailed |-> FALSE, entity |-> None, summary_data |-> {},
     outOfScope |-> FALSE]

\* The scheduler task before periodic_task_scheduler is entered.
SchedOff ==
    [pc |-> "off", ai_enabled |-> FALSE, slept_at |-> None,
     current_check_time |-> None, messages_since_last |-> {}, target_ids |-> {}]

NoCall == [op |-> "", user_id |-> None, returned |-> FALSE]

\* Commands whose code reads `args`.
ArgCommands ==
    {"/monitor_add", "/monitor_remove", "/notify_add", "/notify_remove", "/query"}

\* sender_id of an event: the owner, another user, or None (an anonymous
\* channel post).
Senders == {OWNER_USER_ID, 7, None}

\* The new-message events handed to the handler, message.date apart. The
\* argument blob varies where the code reads it: in the owner's commands that
\* take an argument. The anonymous posts carry the plain texts.
Events ==
    { e \in [chat : ChatIds, mid : MsgIds, sender : Senders,
             token : Tokens, arg : Args, date : {None}] :
        /\ e.arg # "" => (e.sender = OWNER_USER_ID /\ Lower(e.token) \in ArgCommands)
        /\ e.sender = None => e.token \in PlainTokens }

\* Plain messages of another user in one chat: the events of the
\* specifications that are about ingestion alone.
PlainEvents == {e \in Events : e.sender = 7 /\ e.token = "hello" /\ e.chat = 7}

\* The owner's /notify_add and /notify_remove messages in one chat.
NotifyEvents ==
    {e \in Events : e.sender = OWNER_USER_ID /\ e.chat = 7
                    /\ Lower(e.token) \in {"/notify_add", "/notify_remove"}}

\* The owner's /monitor_add, /monitor_remove and /monitor_clear messages in
\* one chat.
MonitorEvents ==
    {e \in Events : e.sender = OWNER_USER_ID /\ e.chat = 7
                    /\ e.token \in {"/monitor_add", "/monitor_remove", "/monitor_clear"}}

Key(e) == <<e.chat, e.mid>>

Keys == ChatIds \X MsgIds

RowsIn(tbl, k) == {r \in tbl : r.chat = k[1] /\ r.mid = k[2]}

RowsOf(k) == RowsIn(messages, k)

OwnerRow == [id |-> OWNER_USER_ID, is_owner |-> TRUE]

TargetRow(u) == [id |-> u, is_owner |-> FALSE]

TargetIds == {r.id : r \in targets}

\* max_retries of run_observer_and_scheduler.
max_retries == 3

\* launch_bot_and_api has created its two tasks and waits for the first of them
\* to end: the bot runner is about to connect, the API server runs, and the
\* observer and scheduler tasks are not created yet.
TasksStarted ==
    [launch |-> "wait", runner |-> "connect", attempt |-> 0, observer |-> "none",
     scheduler |-> "none", api |-> "running"]

\* initialize_db on a database file that may already hold notification
\* targets: the tables exist and the owner row is upserted with is_owner = 1.
\* The module globals have their initial values and no task has run.
Init ==
    /\ messages = {}
    /\ monitored = {}
    /\ \E S \in SUBSET OtherUsers : targets = {OwnerRow} \cup {TargetRow(u) : u \in S}
    /\ is_forwarding_active = TRUE
    /\ botUserId = None
    /\ handlers = [h \in Handlers |-> IdleHandler]
    /\ clock = 0
    /\ last_check_time = None
    /\ sched = SchedOff
    /\ lastCall = NoCall
    /\ tasks = TasksStarted

\* ------------------------------------------------------------- the store

\* log_message with INSERT OR REPLACE in place of ON CONFLICT DO NOTHING: a
\* redelivery overwrites the stored row.
InsertMessage_Replace(tbl, chat, mid, ts) ==
    (tbl \ RowsIn(tbl, <<chat, mid>>))
        \cup {[chat |-> chat, mid |-> mid, fwd |-> FALSE, ts |-> ts]}

\* INSERT INTO messages ... ON CONFLICT(chat_id, message_id) DO NOTHING, on
\* a table whose PRIMARY KEY is (chat_id, message_id); forwarded_to_user
\* takes its DEFAULT 0.
InsertMessage(tbl, chat, mid, ts) ==
    IF \E r \in tbl : r.chat = chat /\ r.mid = mid
    THEN tbl
    ELSE tbl \cup {[chat |-> chat, mid |-> mid, fwd |-> FALSE, ts |-> ts]}

\* The UPDATE with `WHERE message_id = ? AND forwarded_to_user = 0`: message
\* ids are counted per chat, and the same id in another chat is marked too.
UpdateForwarded_AnyChat(tbl, chat, mid) ==
    { IF r.mid = mid /\ ~r.fwd THEN [r EXCEPT !.fwd = TRUE] ELSE r : r \in tbl }

\* UPDATE messages SET forwarded_to_user = 1
\* WHERE chat_id = ? AND message_id = ? AND forwarded_to_user = 0
UpdateForwarded(tbl, chat, mid) ==
    { IF r.chat = chat /\ r.mid = mid /\ ~r.fwd THEN [r EXCEPT !.fwd = TRUE] ELSE r
      : r \in tbl }

\* SELECT ... FROM messages m ... WHERE m.timestamp > ? of get_messages_since;
\* a store error is caught and answers the empty list.
get_messages_since(timestamp, ok) ==
    IF ok THEN {r \in messages : r.ts > timestamp} ELSE {}

\* chats.title of the chats that deliver events, as log_message stored it with
\* the chat's first message: the private chat shows the name of user 7, and
\* the channel is titled with the same name.
chat_title(chat_id) == "Alex"

\* Messages of a chat stored with forwarded_to_user = 0.
Unforwarded(tbl, chat_id) == {r \in tbl : r.chat = chat_id /\ ~r.fwd}

\* get_unforwarded_summary: the dict as a set of <<chat_display, count>>. The
\* query groups by chat id and orders by count descending; the loop assigns
\* summary[chat_display] = count row by row, so of the chats that share a
\* display text the last row, the one with the least count, stays. A store
\* error is caught and answers the empty dict.
get_unforwarded_summary(tbl, ok) ==
    LET chats == {c \in ChatIds : Unforwarded(tbl, c) # {}}
        count(c) == Cardinality(Unforwarded(tbl, c))
    IN
    IF ~ok THEN {}
    ELSE { <<chat_title(c), count(c)>> : c \in
             {c \in chats : \A d \in chats :
                                chat_title(d) = chat_title(c) => count(c) <= count(d)} }

\* is_any_chat_monitored: SELECT 1 FROM monitored_chats LIMIT 1; a store
\* error is caught and answers False.
is_any_chat_monitored(ok) == ok /\ monitored # {}

\* is_chat_monitored that answers True when the store read fails.
is_chat_monitored_FailOpen(chat_id, ok) == ~ok \/ chat_id \in monitored

\* is_chat_monitored: SELECT 1 ... WHERE chat_id = ?; a store error is caught
\* and answers False.
is_chat_monitored(chat_id, ok) == ok /\ chat_id \in monitored

\* The reader without `if OWNER_USER_ID not in ids: ids.append(...)`: a
\* failed read answers the empty list.
get_all_notification_target_ids_NoAppend(ok) == IF ok THEN TargetIds ELSE {}

\* get_all_notification_target_ids: the ids read (none when the read fails),
\* the owner appended when missing, made unique.
get_all_notification_target_ids(ok) ==
    (IF ok THEN TargetIds ELSE {}) \cup {OWNER_USER_ID}

\* add_monitored_chat: insert, or overwrite title and username on conflict; a
\* store error is caught and logged, nothing is returned.
add_monitored_chat(set, chat_id, ok) == IF ok THEN set \cup {chat_id} ELSE set

\* remove_monitored_chat: <<table after, returned value>>.
remove_monitored_chat(set, chat_id, ok) ==
    IF ok /\ chat_id \in set THEN <<set \ {chat_id}, TRUE>> ELSE <<set, FALSE>>

\* clear_monitored_chats: <<table after, rowcount or -1>>.
clear_monitored_chats(set, ok) ==
    IF ok THEN <<{}, Cardinality(set)>> ELSE <<set, -1>>

\* add_notification_target without its `if user_id == OWNER_USER_ID` guard:
\* the upsert meets the owner's row and the function returns True.
add_notification_target_NoOwnerGuard(tbl, user_id, ok) ==
    IF ~ok THEN <<tbl, FALSE>>
    ELSE IF \E r \in tbl : r.id = user_id THEN <<tbl, TRUE>>
    ELSE <<tbl \cup {TargetRow(user_id)}, TRUE>>

\* add_notification_target: <<table after, returned value>>. The owner id is
\* refused before the store is touched; otherwise insert with is_owner = 0, or
\* overwrite username and first_name on conflict.
add_notification_target(tbl, user_id, ok) ==
    IF user_id = OWNER_USER_ID THEN <<tbl, FALSE>>
    ELSE IF ~ok THEN <<tbl, FALSE>>
    ELSE IF \E r \in tbl : r.id = user_id THEN <<tbl, TRUE>>
    ELSE <<tbl \cup {TargetRow(user_id)}, TRUE>>

\* The removal that answers True whenever the DELETE ran, whatever rowcount.
remove_notification_target_NoRowcount(tbl, user_id, ok) ==
    LET hit == {r \in tbl : r.id = user_id /\ ~r.is_owner} IN
    IF user_id = OWNER_USER_ID THEN <<tbl, FALSE>>
    ELSE IF ~ok THEN <<tbl, FALSE>>
    ELSE <<tbl \ hit, TRUE>>

\* remove_notification_target: <<table after, returned value>>. The owner id
\* is refused; otherwise DELETE ... WHERE target_user_id = ? AND is_owner = 0
\* and rowcount > 0.
remove_notification_target(tbl, user_id, ok) ==
    LET hit == {r \in tbl : r.id = user_id /\ ~r.is_owner} IN
    IF user_id = OWNER_USER_ID THEN <<tbl, FALSE>>
    ELSE IF ~ok THEN <<tbl, FALSE>>
    ELSE <<tbl \ hit, hit # {}>>

\* ------------------------------------------------- handle_new_message

\* No invocation is running in slot h: the next event can be dispatched to it.
Free(h) == handlers[h].pc = "idle"

\* The locals of an invocation entered with event ev; message.date is the
\* time of the event.
Start(ev) == [IdleHandler EXCEPT !.ev = [ev EXCEPT !.date = clock]]

\* The handler's locals at `return` (or at the end of the function); err
\* tells whether the store operation just awaited failed.
Done(hr, result, err) ==
    [hr EXCEPT !.pc = "done", !.result = result, !.storeError = err]

\* The handler's locals at a suspension point.
At(hr, pc, err) == [hr EXCEPT !.pc = pc, !.storeError = err]

\* What the code still reads of the event once log_message has returned: the
\* message's key, sender and date (the text only goes into the notification).
Logged(hr) == [hr EXCEPT !.ev.token = "", !.ev.arg = ""]

\* The command dispatch without `if sender_id == OWNER_USER_ID:`.
CommandOf_AnySender(ev) ==
    IF Lower(ev.token) \in Commands THEN Lower(ev.token) ELSE ""

\* The command dispatch on parts[0] without .lower().
CommandOf_CaseSensitive(ev) ==
    IF ev.sender = OWNER_USER_ID /\ ev.token \in Commands THEN ev.token ELSE ""

\* The command dispatch placed behind the monitoring test: nothing is taken
\* as a command in a chat that is out of scope.
CommandOf_ScopeGated(ev) ==
    IF monitored # {} /\ ev.chat \notin monitored THEN ""
    ELSE IF ev.sender = OWNER_USER_ID /\ Lower(ev.token) \in Commands
         THEN Lower(ev.token)
         ELSE ""

\* `if sender_id == OWNER_USER_ID:` and the command of the first token, ""
\* when the sender is not the owner or the token is no command.
CommandOf(ev) ==
    IF ev.sender = OWNER_USER_ID /\ Lower(ev.token) \in Commands
    THEN Lower(ev.token)
    ELSE ""

\* The events of E that the owner test and the if/elif chain take as cmd;
\* cmd = "" for the events that fall through to regular processing.
EventsOf(E, cmd) == {e \in E : CommandOf(e) = cmd}

\* The self check that also returns on the owner's messages.
AfterScope_IgnoreOwner(hr, err) ==
    IF (botUserId # None /\ hr.ev.sender = botUserId) \/ hr.ev.sender = OWNER_USER_ID
    THEN Done(hr, "ignored_self", err)
    ELSE At(hr, "log", err)

\* `if _BOT_USER_ID is not None and sender_id == _BOT_USER_ID: return`, then
\* on to log_message.
AfterScope(hr, err) ==
    IF botUserId # None /\ hr.ev.sender = botUserId
    THEN Done(hr, "ignored_self", err)
    ELSE At(hr, "log", err)

\* A message that is no owner command arrives: up to the answer of
\* `await is_any_chat_monitored()`.
ScopeAny(h, E) ==
    /\ Free(h)
    /\ \E ev \in EventsOf(E, ""), ok \in BOOLEAN :
        LET hr == [Start(ev) EXCEPT
                      !.scopeReadFailed = ~ok,
                      !.outOfScope = monitored # {} /\ ev.chat \notin monitored] IN
        handlers' = [handlers EXCEPT ![h] =
            IF is_any_chat_monitored(ok)
            THEN At(hr, "scope_member", ~ok)
            ELSE AfterScope(hr, ~ok)]
    /\ UNCHANGED <<messages, monitored, targets, is_forwarding_active, botUserId,
                   schedVars>>

\* The answer of `await is_chat_monitored(chat_id)`.
ScopeMember(h) ==
    LET hr == handlers[h] IN
    /\ hr.pc = "scope_member"
    /\ \E ok \in BOOLEAN :
        handlers' = [handlers EXCEPT ![h] =
            IF is_chat_monitored(hr.ev.chat, ok)
            THEN AfterScope(hr, ~ok)
            ELSE Done(hr, "dropped", ~ok)]
    /\ UNCHANGED <<messages, monitored, targets, is_forwarding_active, botUserId,
                   schedVars>>

\* `await log_message(...)`: the insert commits, or a store error is caught
\* and logged inside log_message; either way the handler goes on.
LogMessage(h) ==
    LET hr == handlers[h] IN
    /\ hr.pc = "log"
    /\ \E ok \in BOOLEAN :
        /\ messages' = IF ok
                       THEN InsertMessage(messages, hr.ev.chat, hr.ev.mid, hr.ev.date)
                       ELSE messages
        /\ handlers' = [handlers EXCEPT ![h] = At(Logged(hr), "fwd_check", ~ok)]
    /\ UNCHANGED <<monitored, targets, is_forwarding_active, botUserId,
                   schedVars>>

\* The fan-out that does not test is_forwarding_active.
FwdDecision_IgnoreFlag(hr, active, ids, err) ==
    IF ids = {} THEN Done(hr, "no_targets", err)
    ELSE [At(hr, "send", err) EXCEPT !.target_ids = ids, !.remaining = ids]

\* `if is_forwarding_active and event.client:`, the target list read and
\* `if not target_ids: return`; otherwise into the loop.
FwdDecision(hr, active, ids, err) ==
    IF ~active THEN Done(hr, "not_forwarded", FALSE)
    ELSE IF ids = {} THEN Done(hr, "no_targets", err)
    ELSE [At(hr, "send", err) EXCEPT !.target_ids = ids, !.remaining = ids]

\* The flag is read when log_message has returned and the table at the
\* suspension point that follows; no step of another task lies between.
FwdCheck(h) ==
    /\ handlers[h].pc = "fwd_check"
    /\ \E ok \in BOOLEAN :
        handlers' = [handlers EXCEPT ![h] =
            FwdDecision(handlers[h], is_forwarding_active,
                        get_all_notification_target_ids(ok), ~ok)]
    /\ UNCHANGED <<messages, monitored, targets, is_forwarding_active, botUserId,
                   schedVars>>

\* The end of the loop that calls mark_message_forwarded whatever the count.
AfterSend_AlwaysMark(hr, rest, n) ==
    [hr EXCEPT !.pc = IF rest # {} THEN "send" ELSE "mark", !.remaining = rest,
               !.successful_sends = n, !.storeError = FALSE]

\* After a send attempt (and its flood sleep): the next target, or the end of
\* the loop and `if successful_sends > 0:`.
AfterSend(hr, rest, n) ==
    IF rest # {}
    THEN [hr EXCEPT !.pc = "send", !.remaining = rest, !.successful_sends = n,
                    !.storeError = FALSE]
    ELSE IF n > 0
         THEN [hr EXCEPT !.pc = "mark", !.remaining = rest, !.successful_sends = n,
                         !.storeError = FALSE]
         ELSE [Done(hr, "all_failed", FALSE) EXCEPT !.remaining = rest,
                                                    !.successful_sends = n]

\* The loop whose UserIsBlockedError is not caught per target: it ends the
\* fan-out with the targets that follow unattempted.
SendStep_AbortOnBlocked(hr, t, outcome) ==
    LET n == IF outcome = "ok" THEN hr.successful_sends + 1 ELSE hr.successful_sends
        rest == hr.remaining \ {t}
    IN
    IF outcome = "blocked"
    THEN [Done(hr, "all_failed", FALSE) EXCEPT !.remaining = rest]
    ELSE IF outcome = "flood"
    THEN [hr EXCEPT !.pc = "flood_sleep", !.remaining = rest, !.storeError = FALSE]
    ELSE AfterSend(hr, rest, n)

\* The loop that sends to the rate-limited target again after the sleep.
SendStep_RetryOnFlood(hr, t, outcome) ==
    LET n == IF outcome = "ok" THEN hr.successful_sends + 1 ELSE hr.successful_sends
        rest == hr.remaining \ {t}
    IN
    IF outcome = "flood"
    THEN [hr EXCEPT !.pc = "flood_sleep", !.storeError = FALSE]
    ELSE AfterSend(hr, rest, n)

\* The handler's locals after one pass of `for target_id in target_ids:` on
\* target t with this outcome of client.send_message: every except branch
\* falls through to the next pass, the FloodWaitError one after a sleep.
SendStep(hr, t, outcome) ==
    LET n == IF outcome = "ok" THEN hr.successful_sends + 1 ELSE hr.successful_sends
        rest == hr.remaining \ {t}
    IN
    IF outcome = "flood"
    THEN [hr EXCEPT !.pc = "flood_sleep", !.remaining = rest, !.storeError = FALSE]
    ELSE AfterSend(hr, rest, n)

\* One pass of the fan-out loop; list(set(ids)) fixes no order.
SendOne(h) ==
    LET hr == handlers[h] IN
    /\ hr.pc = "send"
    /\ \E t \in hr.remaining, outcome \in SendOutcomes :
        handlers' = [handlers EXCEPT ![h] = SendStep(hr, t, outcome)]
    /\ UNCHANGED <<messages, monitored, targets, is_forwarding_active, botUserId,
                   schedVars>>

\* `await asyncio.sleep(e.seconds + 1)` of the FloodWaitError branch is over.
FloodWake(h) ==
    LET hr == handlers[h] IN
    /\ hr.pc = "flood_sleep"
    /\ handlers' = [handlers EXCEPT ![h] =
            AfterSend(hr, hr.remaining, hr.successful_sends)]
    /\ UNCHANGED <<messages, monitored, targets, is_forwarding_active, botUserId,
                   schedVars>>

\* `await mark_message_forwarded(chat_id, message_id)`: the update commits, or
\* a store error is caught and logged inside it.
MarkForwarded(h) ==
    LET hr == handlers[h] IN
    /\ hr.pc = "mark"
    /\ \E ok \in BOOLEAN :
        /\ messages' = IF ok THEN UpdateForwarded(messages, hr.ev.chat, hr.ev.mid)
                       ELSE messages
        /\ handlers' = [handlers EXCEPT ![h] = Done(hr, "forwarded", ~ok)]
    /\ UNCHANGED <<monitored, targets, is_forwarding_active, botUserId,
                   schedVars>>

\* The invocation is over: `return`, or the end of the function, or the outer
\* `except Exception` that logs and swallows.
Return(h) ==
    /\ handlers[h].pc = "done"
    /\ handlers' = [handlers EXCEPT ![h] = IdleHandler]
    /\ UNCHANGED <<messages, monitored, targets, is_forwarding_active, botUserId,
                   schedVars>>

\* start_observer: `me = await client.get_me()` answers after the handler is
\* registered; on an error _BOT_USER_ID stays None.
GetMe ==
    /\ botUserId = None
    /\ botUserId' \in SelfIds
    /\ UNCHANGED <<messages, monitored, targets, is_forwarding_active, handlers,
                   schedVars>>

\* ------------------------------------------------------- the summarizer

\* The Config dataclass declares no openrouter_api_key field: reading
\* config.openrouter_api_key raises AttributeError.
ConfigHasOpenRouterKey == FALSE

\* What the primary provider does with a request: a text, a text that is
\* empty once stripped, or a failure (the provider errors, or AI_API_BASE or
\* AI_API_KEY is not configured and no client is made).
PrimaryOutcomes == {"summary", "empty", "failed"}

\* get_ai_summary on a non-empty batch: the primary's text, or, on its
\* failure, whatever `if config.openrouter_api_key:` leads to.
get_ai_summary(primary) ==
    IF primary = "summary" THEN "summary"
    ELSE IF primary = "empty" THEN ""
    ELSE IF ConfigHasOpenRouterKey THEN "Error"
    ELSE "AttributeError"

\* extract_query_params_from_nlp: the primary's filters ("params"), its empty
\* object ("empty"), or, on its failure, whatever
\* `if config.openrouter_api_key:` leads to.
extract_query_params_from_nlp(primary) ==
    IF primary = "summary" THEN "params"
    ELSE IF primary = "empty" THEN "empty"
    ELSE IF ConfigHasOpenRouterKey THEN "None"
    ELSE "AttributeError"

\* --------------------------------------------- the owner's commands

\* `from telethon.tl.types import ...` of observer.py imports PeerUser,
\* PeerChat and PeerChannel but no User: evaluating the tuple
\* (PeerUser, User) in /notify_add raises NameError.
UserNameDefined == FALSE

\* A command was handled: the reply sent and `return`.
Replied(ev, reply, err) == Done(Start(ev), reply, err)

\* The outer try block without its `except Exception`: the exception leaves
\* handle_new_message and reaches the event loop.
Caught_Propagates(hr) == [hr EXCEPT !.pc = "raised", !.result = "exception"]

\* `except Exception as e:` around the body of handle_new_message: the
\* exception is logged and the function ends.
Caught(hr) == Done(hr, "exception", FALSE)

\* The two commands as a switch that flips the flag.
NextForwarding_Toggle(command, active) ==
    IF command \in {"/stop_forwarding", "/start_forwarding"} THEN ~active ELSE active

\* is_forwarding_active after `if is_forwarding_active: is_forwarding_active =
\* False` of /stop_forwarding and `if not is_forwarding_active:
\* is_forwarding_active = True` of /start_forwarding.
NextForwarding(command, active) ==
    IF command = "/stop_forwarding" THEN (IF active THEN FALSE ELSE active)
    ELSE IF command = "/start_forwarding" THEN (IF ~active THEN TRUE ELSE active)
    ELSE active

\* The start of the current UTC day, `today_start` of /summary_today: the
\* clock's range lies within one day.
today_start == -1

Quiet == UNCHANGED <<messages, botUserId, schedVars>>

\* elif command == '/stop_forwarding'
CmdStopForwarding(h, E) ==
    /\ Free(h)
    /\ \E ev \in EventsOf(E, "/stop_forwarding") :
        handlers' = [handlers EXCEPT ![h] =
            Replied(ev, IF is_forwarding_active THEN "stopped" ELSE "already_stopped",
                    FALSE)]
    /\ is_forwarding_active' = NextForwarding("/stop_forwarding", is_forwarding_active)
    /\ Quiet /\ UNCHANGED <<monitored, targets>>

\* elif command == '/start_forwarding', up to `await get_unforwarded_summary()`
CmdStartForwarding(h, E) ==
    /\ Free(h)
    /\ \E ev \in EventsOf(E, "/start_forwarding") :
        handlers' = [handlers EXCEPT ![h] =
            IF is_forwarding_active
            THEN Replied(ev, "already_active", FALSE)
            ELSE At(Start(ev), "start_summary", FALSE)]
    /\ is_forwarding_active' = NextForwarding("/start_forwarding", is_forwarding_active)
    /\ Quiet /\ UNCHANGED <<monitored, targets>>

\* `summary_data = await get_unforwarded_summary()` has answered and the
\* confirmation is replied with one line per entry of the dict.
StartSummary(h) ==
    /\ handlers[h].pc = "start_summary"
    /\ \E ok \in BOOLEAN :
        handlers' = [handlers EXCEPT ![h] =
            [Done(handlers[h], "started", ~ok) EXCEPT
                !.summary_data = get_unforwarded_summary(messages, ok)]]
    /\ Quiet /\ UNCHANGED <<monitored, targets, is_forwarding_active>>

\* What /summary_today ends with once get_messages_since has answered with
\* `batch`: get_ai_summary answers "No new messages to summarize." on an empty
\* batch; a text is replied as the summary, an empty or error text as the
\* failure reason; the AttributeError leaves the command and is caught by the
\* outer `except Exception`, with no reply after "please wait".
SummaryReply(ev, batch, primary, err) ==
    LET ai_summary == IF batch = {} THEN "No new messages" ELSE get_ai_summary(primary) IN
    IF ai_summary = "AttributeError" THEN Caught(Start(ev))
    ELSE IF ai_summary \in {"", "Error", "No new messages"}
         THEN Replied(ev, "summary_failed", err)
         ELSE Replied(ev, "summary", err)

\* elif command == '/summary_today'
CmdSummaryToday(h, E) ==
    /\ Free(h)
    /\ \E ev \in EventsOf(E, "/summary_today"), ok \in BOOLEAN,
          primary \in PrimaryOutcomes :
        handlers' = [handlers EXCEPT ![h] =
            SummaryReply(ev, get_messages_since(today_start, ok), primary, ~ok)]
    /\ Quiet /\ UNCHANGED <<monitored, targets, is_forwarding_active>>

\* The resolution of a command's argument without `if not args:`.
Resolutions_NoUsage(arg, byInt) ==
    IF byInt /\ IsInt(arg) THEN {[how |-> "found", id |-> IntOf(arg)]}
    ELSE {[how |-> "not_found", id |-> None], [how |-> "error", id |-> None]}
         \cup {[how |-> "found", id |-> i] : i \in EntityIds}

\* What the code of a command that resolves its argument gets to work with:
\* "usage" without an argument, the exception of get_entity ("not_found" for
\* ValueError, "error" for any other), or the id. byInt: the command tries
\* int(args) before get_entity.
Resolutions(arg, byInt) ==
    IF arg = "" THEN {[how |-> "usage", id |-> None]}
    ELSE IF byInt /\ IsInt(arg) THEN {[how |-> "found", id |-> IntOf(arg)]}
    ELSE {[how |-> "not_found", id |-> None], [how |-> "error", id |-> None]}
         \cup {[how |-> "found", id |-> i] : i \in EntityIds}

\* History: the handlers that stand between their two reads of the monitored
\* chats note it when the set, as a command leaves it, is not empty and lacks
\* their chat.
Noting(hs, set) ==
    [k \in Handlers |->
        IF hs[k].pc = "scope_member" /\ set # {} /\ hs[k].ev.chat \notin set
        THEN [hs[k] EXCEPT !.outOfScope = TRUE]
        ELSE hs[k]]

\* elif command == '/monitor_add'
CmdMonitorAdd(h, E) ==
    /\ Free(h)
    /\ \E ev \in EventsOf(E, "/monitor_add") :
       \E r \in Resolutions(ev.arg, FALSE), ok \in BOOLEAN :
        IF r.how # "found" THEN
            /\ handlers' = [handlers EXCEPT ![h] = Replied(ev, r.how, FALSE)]
            /\ UNCHANGED monitored
        ELSE
            /\ monitored' = add_monitored_chat(monitored, r.id, ok)
            /\ handlers' = Noting([handlers EXCEPT ![h] =
                    [Replied(ev, "monitor_added", ~ok) EXCEPT !.entity = r.id]],
                                  monitored')
    /\ Quiet /\ UNCHANGED <<targets, is_forwarding_active>>

\* elif command == '/monitor_remove': int(args) first, get_entity on ValueError.
CmdMonitorRemove(h, E) ==
    /\ Free(h)
    /\ \E ev \in EventsOf(E, "/monitor_remove") :
       \E r \in Resolutions(ev.arg, TRUE), ok \in BOOLEAN :
        IF r.how # "found" THEN
            /\ handlers' = [handlers EXCEPT ![h] = Replied(ev, r.how, FALSE)]
            /\ UNCHANGED monitored
        ELSE
            LET out == remove_monitored_chat(monitored, r.id, ok) IN
            /\ monitored' = out[1]
            /\ handlers' = Noting([handlers EXCEPT ![h] =
                    [Replied(ev, IF out[2] THEN "monitor_removed" ELSE "not_monitored",
                             ~ok) EXCEPT !.entity = r.id]], monitored')
    /\ Quiet /\ UNCHANGED <<targets, is_forwarding_active>>

\* elif command == '/monitor_list'
CmdMonitorList(h, E) ==
    /\ Free(h)
    /\ \E ev \in EventsOf(E, "/monitor_list"), ok \in BOOLEAN :
        handlers' = [handlers EXCEPT ![h] =
            Replied(ev, IF ok /\ monitored # {} THEN "monitor_list" ELSE "monitor_all",
                    ~ok)]
    /\ Quiet /\ UNCHANGED <<monitored, targets, is_forwarding_active>>

\* elif command == '/monitor_clear'
CmdMonitorClear(h, E) ==
    /\ Free(h)
    /\ \E ev \in EventsOf(E, "/monitor_clear"), ok \in BOOLEAN :
        LET out == clear_monitored_chats(monitored, ok) IN
        /\ monitored' = out[1]
        /\ handlers' = [handlers EXCEPT ![h] =
                Replied(ev, IF out[2] >= 0 THEN "monitor_cleared" ELSE "error", ~ok)]
    /\ Quiet /\ UNCHANGED <<targets, is_forwarding_active>>

\* elif command == '/query': usage without an argument and an error reply
\* when the AI backend is not configured; otherwise the filters are asked of
\* the backend and the store is queried with them. `found` tells whether
\* query_messages answered any row.
CmdQuery(h, E) ==
    /\ Free(h)
    /\ \E ev \in EventsOf(E, "/query"), configured \in BOOLEAN,
          primary \in PrimaryOutcomes, found \in BOOLEAN :
        LET params == extract_query_params_from_nlp(primary) IN
        handlers' = [handlers EXCEPT ![h] =
            IF ev.arg = "" THEN Replied(ev, "usage", FALSE)
            ELSE IF ~configured THEN Replied(ev, "query_failed", FALSE)
            ELSE IF params = "AttributeError" THEN Caught(Start(ev))
            ELSE IF params \in {"None", "empty"} THEN Replied(ev, "query_failed", FALSE)
            ELSE Replied(ev, IF found THEN "query_results" ELSE "query_no_results", FALSE)]
    /\ Quiet /\ UNCHANGED <<monitored, targets, is_forwarding_active>>

\* elif command == '/help'
CmdHelp(h, E) ==
    /\ Free(h)
    /\ \E ev \in EventsOf(E, "/help") :
        handlers' = [handlers EXCEPT ![h] = Replied(ev, "help", FALSE)]
    /\ Quiet /\ UNCHANGED <<monitored, targets, is_forwarding_active>>

\* The body of /notify_add once get_entity has answered with entity id `id`:
\* <<table after, reply>>. The isinstance test raises NameError, which
\* `except Exception` replies as an error; past it, an entity that is no user
\* is refused, a user goes to add_notification_target and the reply tells
\* its result.
NotifyAddResolved(tbl, id, ok) ==
    LET out == add_notification_target(tbl, id, ok) IN
    IF ~UserNameDefined THEN <<tbl, "error">>
    ELSE IF id \notin Users THEN <<tbl, "invalid_user">>
    ELSE IF out[2] THEN <<out[1], "notify_added">>
    ELSE IF id = OWNER_USER_ID THEN <<tbl, "owner_already">>
    ELSE <<tbl, "notify_add_failed">>

\* elif command == '/notify_add'
CmdNotifyAdd(h, E) ==
    /\ Free(h)
    /\ \E ev \in EventsOf(E, "/notify_add") :
       \E r \in Resolutions(ev.arg, FALSE), ok \in BOOLEAN :
        IF r.how # "found" THEN
            /\ handlers' = [handlers EXCEPT ![h] = Replied(ev, r.how, FALSE)]
            /\ UNCHANGED targets
        ELSE
            LET out == NotifyAddResolved(targets, r.id, ok) IN
            /\ targets' = out[1]
            /\ handlers' = [handlers EXCEPT ![h] =
                    [Replied(ev, out[2], FALSE) EXCEPT !.entity = r.id]]
    /\ Quiet /\ UNCHANGED <<monitored, is_forwarding_active>>

\* elif command == '/notify_remove': int(args) first, get_entity on ValueError.
CmdNotifyRemove(h, E) ==
    /\ Free(h)
    /\ \E ev \in EventsOf(E, "/notify_remove") :
       \E r \in Resolutions(ev.arg, TRUE), ok \in BOOLEAN :
        IF r.how # "found" THEN
            /\ handlers' = [handlers EXCEPT ![h] = Replied(ev, r.how, FALSE)]
            /\ UNCHANGED targets
        ELSE
            LET out == remove_notification_target(targets, r.id, ok) IN
            /\ targets' = out[1]
            /\ handlers' = [handlers EXCEPT ![h] =
                    [Replied(ev, IF out[2] THEN "notify_removed"
                                 ELSE IF r.id = OWNER_USER_ID THEN "owner_protected"
                                 ELSE "notify_remove_failed", ~ok)
                     EXCEPT !.entity = r.id]]
    /\ Quiet /\ UNCHANGED <<monitored, is_forwarding_active>>

\* elif command == '/notify_list'
CmdNotifyList(h, E) ==
    /\ Free(h)
    /\ \E ev \in EventsOf(E, "/notify_list"), ok \in BOOLEAN :
        handlers' = [handlers EXCEPT ![h] =
            Replied(ev, IF ok THEN "notify_list" ELSE "error", ~ok)]
    /\ Quiet /\ UNCHANGED <<monitored, targets, is_forwarding_active>>

\* ------------------------------------------- direct store operations

\* add_notification_target(user_id, ...) called on the store.
TargetAdd ==
    /\ \E u \in Users, ok \in BOOLEAN :
        LET out == add_notification_target(targets, u, ok) IN
        /\ targets' = out[1]
        /\ lastCall' = [op |-> "add", user_id |-> u, returned |-> out[2]]
    /\ UNCHANGED <<messages, monitored, is_forwarding_active, botUserId, handlers,
                   clock, last_check_time, sched, tasks>>

\* remove_notification_target(user_id) called on the store.
TargetRemove ==
    /\ \E u \in Users, ok \in BOOLEAN :
        LET out == remove_notification_target(targets, u, ok) IN
        /\ targets' = out[1]
        /\ lastCall' = [op |-> "remove", user_id |-> u, returned |-> out[2]]
    /\ UNCHANGED <<messages, monitored, is_forwarding_active, botUserId, handlers,
                   clock, last_check_time, sched, tasks>>

\* ------------------------------------------- periodic_task_scheduler

\* load_config raises when WEBHOOK_URL is missing: a Config that reaches the
\* scheduler has a webhook_url.
webhook_enabled == TRUE

\* send_webhook: `payload["bot_name"] = ...` stands before the try block and
\* raises TypeError on a payload that is a list; on a dict the post follows
\* and every exception of it is caught.
send_webhook(payload, post) ==
    IF payload # "dict" THEN "TypeError"
    ELSE IF post THEN "True" ELSE "False"

\* The loop body without `except Exception`: the exception ends the task.
OnException_Uncaught(s) == [s EXCEPT !.pc = "ended"]

\* `except Exception as e:` of the loop body: the error is logged and the
\* cooldown sleep is entered.
OnException(s) == [s EXCEPT !.pc = "cooldown"]

\* Where the scheduler task is suspended in an `await`.
SchedAwaits == {"sleep", "fetch", "ai", "digest", "digest_send", "webhook", "cooldown"}

\* Time passes.
Tick ==
    /\ clock < MaxClock
    /\ clock' = clock + 1
    /\ UNCHANGED <<messages, monitored, targets, is_forwarding_active, botUserId,
                   handlers, last_check_time, sched, lastCall, tasks>>

\* periodic_task_scheduler is entered: neither early return is taken (a
\* webhook_url is set and load_config refuses an interval <= 0) and
\* last_check_time = datetime.utcnow().
SchedStart ==
    /\ sched.pc = "off"
    /\ \E ai \in BOOLEAN :
        sched' = [sched EXCEPT !.pc = "sleep", !.ai_enabled = ai, !.slept_at = clock]
    /\ last_check_time' = clock
    /\ UNCHANGED <<messages, observerVars, clock>>

\* `await asyncio.sleep(interval_seconds)` is over and
\* current_check_time = datetime.utcnow().
SchedWake ==
    /\ sched.pc = "sleep"
    /\ clock > sched.slept_at
    /\ sched' = [sched EXCEPT !.pc = "fetch", !.current_check_time = clock,
                              !.messages_since_last = {}]
    /\ UNCHANGED <<messages, observerVars, clock, last_check_time>>

\* The end of an iteration that reaches line 100 or 104: the checkpoint moves
\* to the snapshot and the loop goes back to sleep.
Advance(s) == [s EXCEPT !.pc = "sleep", !.slept_at = clock, !.messages_since_last = {}]

\* `messages_since_last = await get_messages_since(last_check_time)` and the
\* branch on it.
SchedFetch ==
    /\ sched.pc = "fetch"
    /\ \E ok \in BOOLEAN :
        LET batch == {Key(r) : r \in get_messages_since(last_check_time, ok)} IN
        IF batch = {}
        THEN /\ sched' = Advance(sched)
             /\ last_check_time' = sched.current_check_time
        ELSE /\ sched' = [sched EXCEPT !.pc = IF sched.ai_enabled THEN "ai" ELSE "webhook",
                                       !.messages_since_last = batch]
             /\ UNCHANGED last_check_time
    /\ UNCHANGED <<messages, observerVars, clock>>

\* The scheduler whose digest is sent only `if ai_summary_result and
\* is_forwarding_active`.
SchedSummary_Gated ==
    /\ sched.pc = "ai"
    /\ \E primary \in PrimaryOutcomes :
        LET res == get_ai_summary(primary) IN
        sched' = IF res = "AttributeError" THEN OnException(sched)
                 ELSE IF res \in {"", "Error"} \/ ~is_forwarding_active
                      THEN [sched EXCEPT !.pc = "webhook"]
                 ELSE [sched EXCEPT !.pc = "digest"]
    /\ UNCHANGED <<messages, observerVars, clock, last_check_time>>

\* `ai_summary_result = await get_ai_summary(config, messages_since_last)`:
\* a usable text goes to the digest, an unusable one leaves None, an
\* exception leaves the try block.
SchedSummary ==
    /\ sched.pc = "ai"
    /\ \E primary \in PrimaryOutcomes :
        LET res == get_ai_summary(primary) IN
        sched' = IF res = "AttributeError" THEN OnException(sched)
                 ELSE IF res \in {"", "Error"} THEN [sched EXCEPT !.pc = "webhook"]
                 ELSE [sched EXCEPT !.pc = "digest"]
    /\ UNCHANGED <<messages, observerVars, clock, last_check_time>>

\* `target_ids = await get_all_notification_target_ids()` of the digest.
SchedDigest ==
    /\ sched.pc = "digest"
    /\ \E ok \in BOOLEAN :
        sched' = [sched EXCEPT !.pc = "digest_send",
                               !.target_ids = get_all_notification_target_ids(ok)]
    /\ UNCHANGED <<messages, observerVars, clock, last_check_time>>

\* `for target_id in target_ids:` of the digest: one send per target of the
\* list read, each send's exception caught.
SchedDigestSend ==
    /\ sched.pc = "digest_send"
    /\ sched' = [sched EXCEPT !.pc = "webhook", !.target_ids = {}]
    /\ UNCHANGED <<messages, observerVars, clock, last_check_time>>

\* `await send_webhook(config, messages_since_last)` with the list of message
\* dicts, then `last_check_time = current_check_time`.
SchedWebhook ==
    /\ sched.pc = "webhook"
    /\ webhook_enabled
    /\ \E post \in BOOLEAN :
        IF send_webhook("list", post) = "TypeError"
        THEN /\ sched' = OnException(sched)
             /\ UNCHANGED last_check_time
        ELSE /\ sched' = Advance(sched)
             /\ last_check_time' = sched.current_check_time
    /\ UNCHANGED <<messages, observerVars, clock>>

\* `except Exception`: the error is logged, `await asyncio.sleep(60)` and the
\* loop goes on with its next iteration.
SchedCooldown ==
    /\ sched.pc = "cooldown"
    /\ sched' = [sched EXCEPT !.pc = "sleep", !.slept_at = clock]
    /\ UNCHANGED <<messages, observerVars, clock, last_check_time>>

\* task.cancel() of run_observer_and_scheduler reaches the scheduler at the
\* await it is suspended in: `except asyncio.CancelledError: break` in the
\* loop body, and out of the cooldown sleep the CancelledError leaves the
\* function. The task is over and its locals are gone.
SchedCancel ==
    /\ sched.pc \in SchedAwaits
    /\ sched' = [SchedOff EXCEPT !.pc = "cancelled"]
    /\ UNCHANGED <<messages, observerVars, clock, last_check_time>>

\* ------------------------------------------------------ query_messages

\* timedelta(days=1) in ticks of the clock; tick 0 is 2024-01-01 00:00:00 UTC.
DayTicks == 2

\* A filter argument of query_messages: None, a string or an integer.
NoFilter == [kind |-> "none", s |-> "", i |-> 0]

StrFilter(s) == [kind |-> "str", s |-> s, i |-> 0]

IntFilter(i) == [kind |-> "int", s |-> "", i |-> i]

\* `if chat_filter:` / `if sender_filter:`: None, "" and 0 are false.
Truthy(f) == (f.kind = "str" /\ f.s # "") \/ (f.kind = "int" /\ f.i # 0)

\* chats.username and users.username as log_message stored them.
chat_username(chat_id) == IF chat_id = 7 THEN "alex" ELSE "news"

user_username(user_id) == IF user_id = 7 THEN "alex" ELSE "owner"

\* media_type of a stored message; "" is NULL.
MediaTypes == {"", "photo"}

\* Rows of table messages with the columns query_messages reads.
QueryRows ==
    [chat : ChatIds, mid : MsgIds, sender : {7, None}, ts : 0..MaxClock,
     media : MediaTypes]

\* The tables queried: up to two messages, (chat_id, message_id) unique.
QueryTables ==
    {{}} \cup {t \in {{a, b} : a, b \in QueryRows} :
                  \A a, b \in t : a # b => Key(a) # Key(b)}

ChatFilters ==
    {NoFilter, StrFilter(""), StrFilter("Alex"), StrFilter("news"),
     StrFilter("nonexistent"), IntFilter(-1005), IntFilter(99)}

SenderFilters ==
    {NoFilter, StrFilter(""), StrFilter("alex"), StrFilter("ghost"),
     IntFilter(7), IntFilter(99)}

\* date_filter; "" is None.
DateFilters == {"", "today", "Yesterday", "2024-01-01", "2024-01-02", "soon"}

\* content_filter; "" is None.
ContentFilters == {"", "photos", "video"}

\* limit: a small one and the default.
Limits == {1, 25}

\* date_filter.lower()
LowerDate(d) == IF d = "Yesterday" THEN "yesterday" ELSE d

\* datetime.strptime(date_filter, '%Y-%m-%d').date() as the number of the
\* day, -1 for the ValueError.
StrpDate(d) ==
    CASE d = "2024-01-01" -> 0
      [] d = "2024-01-02" -> 1
      [] OTHER -> -1

\* datetime.now(timezone.utc).date() as the number of the day, at time now.
DayOf(now) == now \div DayTicks

\* The date filter's day: today, yesterday or the parsed date; -1 when the
\* filter is absent or cannot be parsed, and no clause is added.
FilterDay(date_filter, now) ==
    IF date_filter = "" THEN -1
    ELSE IF LowerDate(date_filter) = "today" THEN DayOf(now)
    ELSE IF LowerDate(date_filter) = "yesterday" THEN DayOf(now) - 1
    ELSE StrpDate(date_filter)

\* The date clause with the end of the day included.
DateClause_Inclusive(ts, start_date, end_date) == ts >= start_date /\ ts <= end_date

\* m.timestamp >= ? AND m.timestamp < ?
DateClause(ts, start_date, end_date) == ts >= start_date /\ ts < end_date

\* What a stage that resolves a filter leaves for the WHERE clause: no
\* clause, a clause on an id, or `return []`.
NoClause == [stop |-> FALSE, all |-> TRUE, id |-> 0]

IdClause(id) == [stop |-> FALSE, all |-> FALSE, id |-> id]

ReturnEmpty == [stop |-> TRUE, all |-> FALSE, id |-> 0]

\* The chat stage that goes on without a clause when no chat is found.
ResolveChat_FailOpen(tbl, f) ==
    LET found == {c \in {r.chat : r \in tbl} :
                    chat_username(c) = f.s \/ chat_title(c) = f.s} IN
    IF ~Truthy(f) THEN {NoClause}
    ELSE IF f.kind = "int" THEN {IdClause(f.i)}
    ELSE IF found = {} THEN {NoClause}
    ELSE {IdClause(c) : c \in found}

\* 1. Filter by Chat: an integer is the chat id; a string is looked up in
\* chats by username or title, LIMIT 1 with no order, and `return []` when no
\* row is found. The chats stored are the chats of the stored messages.
ResolveChat(tbl, f) ==
    LET found == {c \in {r.chat : r \in tbl} :
                    chat_username(c) = f.s \/ chat_title(c) = f.s} IN
    IF ~Truthy(f) THEN {NoClause}
    ELSE IF f.kind = "int" THEN {IdClause(f.i)}
    ELSE IF found = {} THEN {ReturnEmpty}
    ELSE {IdClause(c) : c \in found}

\* 3. Filter by Sender: an integer is the user id; a string is looked up in
\* users by username; `return []` when there is no id.
ResolveSender(tbl, f) ==
    LET found == {u \in {r.sender : r \in tbl} \ {None} : user_username(u) = f.s} IN
    IF ~Truthy(f) THEN {NoClause}
    ELSE IF f.kind = "int" THEN {IdClause(f.i)}
    ELSE IF found = {} THEN {ReturnEmpty}
    ELSE {IdClause(u) : u \in found}

\* 4. Filter by Content: 'photos' and 'images' add m.media_type = 'photo';
\* a filter the chain does not know adds no clause.
ContentClause(r, content_filter) ==
    content_filter = "photos" => r.media = "photo"

\* ORDER BY m.timestamp with the default direction, oldest first.
NewestFirst_Ascending(S) ==
    {q \in [1..Cardinality(S) -> S] :
        /\ \A i, j \in 1..Cardinality(S) : i # j => q[i] # q[j]
        /\ \A i, j \in 1..Cardinality(S) : i < j => q[i].ts <= q[j].ts}

\* ORDER BY m.timestamp DESC: the orders of the rows of S, newest first.
NewestFirst(S) ==
    {q \in [1..Cardinality(S) -> S] :
        /\ \A i, j \in 1..Cardinality(S) : i # j => q[i] # q[j]
        /\ \A i, j \in 1..Cardinality(S) : i < j => q[i].ts >= q[j].ts}

\* LIMIT ?
Limit(q, n) == IF Len(q) <= n THEN q ELSE SubSeq(q, 1, n)

\* query_messages at time now: the lists it may return. A store error is
\* caught and the empty list is returned.
query_messages(tbl, chat_filter, date_filter, content_filter, sender_filter, limit, now, ok) ==
    LET day == FilterDay(date_filter, now)
        rows(c, u) ==
            {r \in tbl :
                /\ c.all \/ r.chat = c.id
                /\ day >= 0 => DateClause(r.ts, day * DayTicks, day * DayTicks + DayTicks)
                /\ u.all \/ r.sender = u.id
                /\ ContentClause(r, content_filter)}
    IN
    IF ~ok THEN {<<>>}
    ELSE UNION { UNION { IF c.stop \/ u.stop THEN {<<>>}
                         ELSE {Limit(q, limit) : q \in NewestFirst(rows(c, u))}
                         : u \in ResolveSender(tbl, sender_filter) }
                 : c \in ResolveChat(tbl, chat_filter) }

\* The calls made: every chat, date and sender filter with the default
\* content filter and limit, and every date and content filter and limit with
\* no chat and sender filter.
QueryCalls ==
    {c \in [chat_filter : ChatFilters, date_filter : DateFilters,
            content_filter : ContentFilters, sender_filter : SenderFilters,
            limit : Limits, ok : BOOLEAN] :
        \/ c.content_filter = "" /\ c.limit = 25
        \/ c.chat_filter = NoFilter /\ c.sender_filter = NoFilter /\ c.ok}

\* One call of query_messages on a table, at the end of the modelled time.
QueryMessages ==
    /\ lastCall = NoCall
    /\ \E tbl \in QueryTables, c \in QueryCalls :
        \E res \in query_messages(tbl, c.chat_filter, c.date_filter, c.content_filter,
                                   c.sender_filter, c.limit, MaxClock, c.ok) :
            lastCall' = [op |-> "query_messages", table |-> tbl, chat_filter |-> c.chat_filter,
                         date_filter |-> c.date_filter,
                         content_filter |-> c.content_filter,
                         sender_filter |-> c.sender_filter, limit |-> c.limit,
                         ok |-> c.ok, returned |-> res]
    /\ UNCHANGED <<messages, monitored, targets, is_forwarding_active, botUserId,
                   handlers, clock, last_check_time, sched, tasks>>

\* ---------------------------------------------------- tasks and shutdown

\* Where a task that was cancelled stands once the loop has run it for the one
\* iteration of `await asyncio.sleep(0)`: finished, or still in the awaits of
\* its cleanup (the disconnect of the client, the close of a connection).
AfterCancel == {"finished", "unwinding"}

\* A task has ended: it returned, raised, or was cancelled and is through.
Ended(st) == st \in {"none", "finished"}

\* run_observer_and_scheduler connects: on success the observer and scheduler
\* tasks are created and asyncio.wait(FIRST_COMPLETED) is awaited; on a failure
\* the loop sleeps and tries again, and returns after max_retries failures.
RunnerConnect ==
    /\ tasks.runner = "connect"
    /\ \E connected \in BOOLEAN :
        tasks' = IF connected
                 THEN [tasks EXCEPT !.runner = "wait", !.observer = "running",
                                    !.scheduler = "running"]
                 ELSE IF tasks.attempt + 1 = max_retries
                      THEN [tasks EXCEPT !.runner = "finished",
                                         !.attempt = tasks.attempt + 1]
                      ELSE [tasks EXCEPT !.attempt = tasks.attempt + 1]
    /\ UNCHANGED <<messages, monitored, targets, is_forwarding_active, botUserId,
                   handlers, clock, last_check_time, sched, lastCall>>

\* start_observer returns or raises: the client got disconnected, or the
\* configuration is not on the client.
ObserverEnds ==
    /\ tasks.observer = "running"
    /\ tasks' = [tasks EXCEPT !.observer = "finished"]
    /\ UNCHANGED <<messages, monitored, targets, is_forwarding_active, botUserId,
                   handlers, clock, last_check_time, sched, lastCall>>

\* periodic_task_scheduler returns before its loop: nothing is configured or
\* the interval is not positive.
SchedulerEnds ==
    /\ tasks.scheduler = "running"
    /\ tasks' = [tasks EXCEPT !.scheduler = "finished"]
    /\ UNCHANGED <<messages, monitored, targets, is_forwarding_active, botUserId,
                   handlers, clock, last_check_time, sched, lastCall>>

\* api_server.serve() returns or raises.
ApiEnds ==
    /\ tasks.api = "running"
    /\ tasks' = [tasks EXCEPT !.api = "finished"]
    /\ UNCHANGED <<messages, monitored, targets, is_forwarding_active, botUserId,
                   handlers, clock, last_check_time, sched, lastCall>>

\* asyncio.wait of the bot runner returns with the first of observer and
\* scheduler done: `for task in pending: task.cancel(); await asyncio.sleep(0)`,
\* then out of `async with client` and into the disconnect.
RunnerCleanup ==
    /\ tasks.runner = "wait"
    /\ tasks.observer = "finished" \/ tasks.scheduler = "finished"
    /\ \E o \in AfterCancel, c \in AfterCancel :
        tasks' = [tasks EXCEPT
                    !.runner = "disconnect",
                    !.observer = IF tasks.observer = "running" THEN o ELSE @,
                    !.scheduler = IF tasks.scheduler = "running" THEN c ELSE @]
    /\ UNCHANGED <<messages, monitored, targets, is_forwarding_active, botUserId,
                   handlers, clock, last_check_time, sched, lastCall>>

\* The client is disconnected and run_observer_and_scheduler returns.
RunnerDisconnected ==
    /\ tasks.runner = "disconnect"
    /\ tasks' = [tasks EXCEPT !.runner = "finished"]
    /\ UNCHANGED <<messages, monitored, targets, is_forwarding_active, botUserId,
                   handlers, clock, last_check_time, sched, lastCall>>

\* A cancelled task comes to the end of its cleanup.
Unwound ==
    /\ \E t \in {"runner", "observer", "scheduler", "api"} :
        /\ tasks[t] = "unwinding"
        /\ tasks' = [tasks EXCEPT ![t] = "finished"]
    /\ UNCHANGED <<messages, monitored, targets, is_forwarding_active, botUserId,
                   handlers, clock, last_check_time, sched, lastCall>>

\* The cleanup of launch_bot_and_api: `for task in pending: task.cancel();
\* await asyncio.sleep(0)` over the bot runner and the API task, r and a being
\* where a cancelled one stands after the sleep, then "shutdown complete" is
\* logged. Nothing here cancels the observer or the scheduler task, and the
\* cancellation of asyncio.wait inside the bot runner does not cancel them.
LaunchCleanup(t, r, a) ==
    [t EXCEPT !.launch = "reported",
              !.runner = IF @ = "finished" THEN @
                         ELSE IF @ = "connect" THEN "finished" ELSE r,
              !.api = IF @ = "finished" THEN @ ELSE a]

\* asyncio.wait of launch_bot_and_api returns with the first of bot runner and
\* API task done, and the cleanup runs up to the report.
LaunchReports ==
    /\ tasks.launch = "wait"
    /\ tasks.runner = "finished" \/ tasks.api = "finished"
    /\ \E r \in AfterCancel, a \in AfterCancel : tasks' = LaunchCleanup(tasks, r, a)
    /\ UNCHANGED <<messages, monitored, targets, is_forwarding_active, botUserId,
                   handlers, clock, last_check_time, sched, lastCall>>

\* asyncio.run, once launch_bot_and_api has returned, cancels every task that
\* is left and runs the loop until all of them are through.
RunCloses ==
    /\ tasks.launch = "reported"
    /\ tasks' = [tasks EXCEPT !.launch = "closed",
                              !.runner = "finished",
                              !.api = "finished",
                              !.observer = IF @ = "none" THEN @ ELSE "finished",
                              !.scheduler = IF @ = "none" THEN @ ELSE "finished"]
    /\ UNCHANGED <<messages, monitored, targets, is_forwarding_active, botUserId,
                   handlers, clock, last_check_time, sched, lastCall>>

\* ------------------------------------------------------- specifications

\* The observer with one invocation of the handler at a time.
Next ==
    \/ ScopeAny(1, Events)
    \/ ScopeMember(1)
    \/ LogMessage(1)
    \/ FwdCheck(1)
    \/ SendOne(1)
    \/ FloodWake(1)
    \/ MarkForwarded(1)
    \/ Return(1)
    \/ GetMe
    \/ CmdStopForwarding(1, Events)
    \/ CmdStartForwarding(1, Events)
    \/ StartSummary(1)
    \/ CmdSummaryToday(1, Events)
    \/ CmdMonitorAdd(1, Events)
    \/ CmdMonitorRemove(1, Events)
    \/ CmdMonitorList(1, Events)
    \/ CmdMonitorClear(1, Events)
    \/ CmdQuery(1, Events)
    \/ CmdHelp(1, Events)
    \/ CmdNotifyAdd(1, Events)
    \/ CmdNotifyRemove(1, Events)
    \/ CmdNotifyList(1, Events)

Spec == Init /\ [][Next]_vars

\* Ingestion with invocations of the handler overlapping, on a database file
\* that may already hold a monitored chat.
OverlapInit ==
    /\ messages = {}
    /\ monitored \in {{}, {7}}
    /\ targets = {OwnerRow}
    /\ is_forwarding_active = TRUE
    /\ botUserId = None
    /\ handlers = [h \in Handlers |-> IdleHandler]
    /\ clock = 0
    /\ last_check_time = None
    /\ sched = SchedOff
    /\ lastCall = NoCall
    /\ tasks = TasksStarted

OverlapNext ==
    \E h \in Handlers :
        \/ ScopeAny(h, PlainEvents)
        \/ ScopeMember(h)
        \/ LogMessage(h)
        \/ FwdCheck(h)
        \/ SendOne(h)
        \/ FloodWake(h)
        \/ MarkForwarded(h)
        \/ Return(h)

Overlap == OverlapInit /\ [][OverlapNext]_vars

\* Ingestion with invocations of the handler overlapping while the owner
\* changes the monitored chats.
ScopeRaceNext ==
    \E h \in Handlers :
        \/ ScopeAny(h, PlainEvents)
        \/ ScopeMember(h)
        \/ LogMessage(h)
        \/ FwdCheck(h)
        \/ SendOne(h)
        \/ FloodWake(h)
        \/ MarkForwarded(h)
        \/ Return(h)
        \/ CmdMonitorAdd(h, MonitorEvents)
        \/ CmdMonitorRemove(h, MonitorEvents)
        \/ CmdMonitorClear(h, MonitorEvents)

ScopeRace == OverlapInit /\ [][ScopeRaceNext]_vars

\* One iteration of the scheduler next to overlapping invocations of the
\* handler, with two notification targets in the store: the scheduler is in
\* its interval sleep, entered one tick ago.
FloodInit ==
    /\ messages = {}
    /\ monitored = {}
    /\ targets = {OwnerRow, TargetRow(7)}
    /\ is_forwarding_active = TRUE
    /\ botUserId = None
    /\ handlers = [h \in Handlers |-> IdleHandler]
    /\ clock = 1
    /\ last_check_time = 0
    /\ \E ai \in BOOLEAN :
        sched = [SchedOff EXCEPT !.pc = "sleep", !.ai_enabled = ai, !.slept_at = 0]
    /\ lastCall = NoCall
    /\ tasks = TasksStarted

FloodNext ==
    \/ \E h \in Handlers :
        \/ ScopeAny(h, PlainEvents)
        \/ LogMessage(h)
        \/ FwdCheck(h)
        \/ SendOne(h)
        \/ FloodWake(h)
        \/ MarkForwarded(h)
        \/ Return(h)
    \/ SchedWake
    \/ SchedFetch
    \/ SchedSummary
    \/ SchedDigest
    \/ SchedDigestSend
    \/ SchedWebhook
    \/ SchedCooldown

FloodSpec == FloodInit /\ [][FloodNext]_vars

\* The scheduler next to the ingestion of plain messages, with two
\* notification targets in the store.
SchedInit ==
    /\ Init
    /\ targets = {OwnerRow, TargetRow(7)}

SchedNext ==
    \/ Tick
    \/ SchedStart
    \/ SchedWake
    \/ SchedFetch
    \/ SchedSummary
    \/ SchedDigest
    \/ SchedDigestSend
    \/ SchedWebhook
    \/ SchedCooldown
    \/ SchedCancel
    \/ ScopeAny(1, PlainEvents)
    \/ LogMessage(1)
    \/ FwdCheck(1)
    \/ SendOne(1)
    \/ FloodWake(1)
    \/ MarkForwarded(1)
    \/ Return(1)

SchedSpec == SchedInit /\ [][SchedNext]_vars

\* The scheduler and the ingestion of plain messages while the owner removes
\* notification targets.
RemoveNext ==
    \/ SchedNext
    \/ CmdNotifyRemove(1, NotifyEvents)

RemoveSpec == SchedInit /\ [][RemoveNext]_vars

\* The scheduler and the ingestion of plain messages while the owner stops
\* forwarding.
StopNext ==
    \/ SchedNext
    \/ CmdStopForwarding(1, {e \in Events : e.sender = OWNER_USER_ID /\ e.chat = 7})

StopSpec == SchedInit /\ [][StopNext]_vars

\* The scheduler with its cooldown sleep coming to an end: asyncio.sleep(60)
\* returns unless the task is cancelled first.
SchedFair ==
    /\ SchedInit /\ [][SchedNext]_vars
    /\ WF_vars(SchedCooldown)

\* The notification-target operations, called directly and through the
\* owner's /notify_add and /notify_remove.
StoreNext ==
    \/ TargetAdd
    \/ TargetRemove
    \/ CmdNotifyAdd(1, NotifyEvents)
    \/ CmdNotifyRemove(1, NotifyEvents)
    \/ Return(1)

StoreSpec == Init /\ [][StoreNext]_vars

\* The tables of messages that log_message and mark_message_forwarded can
\* leave behind: at most one row per (chat_id, message_id).
MessageTables ==
    { {[chat |-> k[1], mid |-> k[2], fwd |-> c[k].fwd, ts |-> c[k].ts] :
            k \in {x \in ChatIds \X MsgIds : c[x].present}} :
        c \in [ChatIds \X MsgIds -> [present : BOOLEAN, fwd : BOOLEAN, ts : 0..MaxClock]] }

\* mark_message_forwarded(chat_id, message_id) called on the store: the
\* update commits, or a store error is caught and logged inside it.
MarkMessageForwarded ==
    /\ \E chat \in ChatIds, mid \in MsgIds, ok \in BOOLEAN :
        /\ messages' = IF ok THEN UpdateForwarded(messages, chat, mid) ELSE messages
        /\ lastCall' = [op |-> "mark", chat_id |-> chat, message_id |-> mid,
                        committed |-> ok]
    /\ UNCHANGED <<monitored, targets, is_forwarding_active, botUserId, handlers,
                   clock, last_check_time, sched, tasks>>

\* mark_message_forwarded applied, again and again, to any table of messages.
MarkInit ==
    /\ messages \in MessageTables
    /\ monitored = {}
    /\ targets = {OwnerRow}
    /\ is_forwarding_active = TRUE
    /\ botUserId = None
    /\ handlers = [h \in Handlers |-> IdleHandler]
    /\ clock = 0
    /\ last_check_time = None
    /\ sched = SchedOff
    /\ lastCall = NoCall
    /\ tasks = TasksStarted

MarkSpec == MarkInit /\ [][MarkMessageForwarded]_vars

\* The tasks of main.py from their creation to the end of asyncio.run.
ShutdownNext ==
    \/ RunnerConnect
    \/ ObserverEnds
    \/ SchedulerEnds
    \/ ApiEnds
    \/ RunnerCleanup
    \/ RunnerDisconnected
    \/ Unwound
    \/ LaunchReports
    \/ RunCloses

ShutdownSpec == Init /\ [][ShutdownNext]_vars

\* query_messages called on a table of messages.
QueryNext == QueryMessages

QuerySpec == Init /\ [][QueryNext]_vars

\* --------------------------------------------------------------- claims

\* What handle_new_message ends with when it has treated the event as a
\* regular message.
RegularResults ==
    {"dropped", "ignored_self", "not_forwarded", "no_targets", "all_failed",
     "forwarded"}

\* The handler is past the monitoring test with a regular message.
PastScope(hr) ==
    \/ hr.pc \in {"log", "fwd_check", "send", "flood_sleep", "mark"}
    \/ hr.pc = "done" /\ hr.result \in RegularResults \ {"dropped"}

\* The handler is past log_message.
PastLog(hr) ==
    \/ hr.pc \in {"fwd_check", "send", "flood_sleep", "mark"}
    \/ hr.pc = "done" /\ hr.result \in RegularResults \ {"dropped", "ignored_self"}

\* C1. Whatever events are delivered, redeliveries of one (chat id,
\* message id) and overlapping handlers of one message included, the store
\* never holds two rows for a (chat id, message id); a log_message that
\* commits leaves exactly one row for its message; and log_message changes
\* or removes no row that is already stored, so the first row keeps its
\* content and its forwarded-state.
C1_IdempotentInsert ==
    /\ [](\A k \in Keys : Cardinality(RowsOf(k)) <= 1)
    /\ [][\A h \in Handlers :
            (handlers[h].pc = "log" /\ handlers'[h].pc = "fwd_check") =>
                LET k == Key(handlers[h].ev) IN
                /\ messages \subseteq messages'
                /\ RowsOf(k) # {} => messages' = messages
                /\ ~handlers'[h].storeError => Cardinality(RowsIn(messages', k)) = 1
         ]_vars

\* C1 happens: both handlers have logged the same message, one after the
\* other's notification was marked, and the one row is still the forwarded one.
C1_Witness ==
    \E k \in Keys :
        /\ handlers[1].pc = "fwd_check" /\ ~handlers[1].storeError
        /\ handlers[2].pc = "fwd_check" /\ ~handlers[2].storeError
        /\ Key(handlers[1].ev) = k /\ Key(handlers[2].ev) = k
        /\ \E r \in RowsOf(k) : r.fwd
        /\ Cardinality(RowsOf(k)) = 1

\* C2 as stated: whenever a handler is past the monitoring test with a
\* message, the monitored set is empty or contains the message's chat.
C2_Original ==
    \A h \in Handlers :
        PastScope(handlers[h]) =>
            (monitored = {} \/ handlers[h].ev.chat \in monitored)

\* C2. When the monitored set is non-empty and does not contain the chat of a
\* message, and the read of is_any_chat_monitored did not fail, the handler
\* does not get past the monitoring test: it reaches neither log_message nor
\* the fan-out. (The set does not change while the one handler runs.)
C2_DroppedOutOfScope ==
    \A h \in Handlers :
        (PastScope(handlers[h]) /\ ~handlers[h].scopeReadFailed) =>
            (monitored = {} \/ handlers[h].ev.chat \in monitored)

\* C2 happens: a message of a chat outside a non-empty monitored set was
\* dropped, with no row for it and no target read for it.
C2_Witness ==
    /\ handlers[1].pc = "done" /\ handlers[1].result = "dropped"
    /\ ~handlers[1].scopeReadFailed
    /\ monitored # {} /\ handlers[1].ev.chat \notin monitored
    /\ RowsOf(Key(handlers[1].ev)) = {}
    /\ handlers[1].target_ids = {}

\* C3. No step of a handler whose event has a sender other than the owner
\* changes is_forwarding_active, the monitored chats or the notification
\* targets, whatever the first token; the handler is on the path of regular
\* messages.
C3_NonOwnerIsRegular ==
    [][\A h \in Handlers :
        (handlers'[h] # handlers[h] /\ handlers'[h].pc # "idle"
            /\ handlers'[h].ev.sender # OWNER_USER_ID) =>
            /\ UNCHANGED <<is_forwarding_active, monitored, targets>>
            /\ handlers'[h].pc \in
                    {"scope_member", "log", "fwd_check", "send", "flood_sleep",
                     "mark", "done"}
            /\ handlers'[h].pc = "done" => handlers'[h].result \in RegularResults
      ]_vars

\* C3 happens: user 7 has sent the text of a command while forwarding is
\* active and chats are monitored, and the message is about to be logged.
C3_Witness ==
    /\ handlers[1].pc = "log"
    /\ handlers[1].ev.sender = 7
    /\ handlers[1].ev.token = "/monitor_clear"
    /\ monitored # {}
    /\ is_forwarding_active

\* C4 as stated, from the sends to the state: once a handler is done that
\* counted a successful send for its message, the message is stored with
\* forwarded-state true.
C4_Original ==
    \A h \in Handlers :
        (handlers[h].pc = "done" /\ handlers[h].successful_sends > 0) =>
            /\ RowsOf(Key(handlers[h].ev)) # {}
            /\ \A r \in RowsOf(Key(handlers[h].ev)) : r.fwd

\* C4. A row is stored as forwarded only by the mark_message_forwarded step
\* of a handler of that message that counted a successful send: a new row is
\* never forwarded and no other step turns a row forwarded; a handler that
\* counted a successful send ends through mark_message_forwarded, and when
\* that update commits every stored row of the message is forwarded.
C4_ForwardedState ==
    /\ [](\A h \in Handlers :
            (handlers[h].pc = "done" /\ handlers[h].successful_sends > 0) =>
                handlers[h].result = "forwarded")
    /\ [][/\ \A r \in messages' :
                (r.fwd /\ r \notin messages) =>
                    \E h \in Handlers :
                        /\ handlers[h].pc = "mark"
                        /\ handlers[h].successful_sends > 0
                        /\ Key(handlers[h].ev) = <<r.chat, r.mid>>
          /\ \A h \in Handlers :
                (handlers[h].pc = "mark" /\ handlers'[h].pc = "done"
                    /\ ~handlers'[h].storeError) =>
                    \A r \in RowsIn(messages', Key(handlers[h].ev)) : r.fwd
         ]_vars

\* C4 happens: a handler is done after a successful send and a committed
\* mark, and the row is forwarded.
C4_Witness ==
    /\ handlers[1].pc = "done" /\ handlers[1].result = "forwarded"
    /\ ~handlers[1].storeError
    /\ handlers[1].successful_sends > 0
    /\ \E r \in RowsOf(Key(handlers[1].ev)) : r.fwd

\* C5 as stated: a handler that is done with a fan-out in which a send
\* failed and another succeeded has attempted every target and the message
\* is stored as forwarded.
C5_Original ==
    \A h \in Handlers :
        (handlers[h].pc = "done"
            /\ handlers[h].successful_sends > 0
            /\ handlers[h].successful_sends < Cardinality(handlers[h].target_ids)) =>
            /\ handlers[h].remaining = {}
            /\ \E r \in RowsOf(Key(handlers[h].ev)) : r.fwd

\* C5. Every pass of the fan-out loop takes one target off the list whatever
\* the outcome of its send, and the loop is left only when no target
\* remains; with a successful send counted it is left for
\* mark_message_forwarded, and when that update commits every stored row of
\* the message is forwarded.
C5_FailureIsolation ==
    [][\A h \in Handlers :
        /\ (handlers[h].pc = "send" /\ handlers'[h] # handlers[h]) =>
            /\ \E t \in handlers[h].remaining :
                    handlers'[h].remaining = handlers[h].remaining \ {t}
            /\ handlers'[h].target_ids = handlers[h].target_ids
        /\ (handlers[h].pc \in {"send", "flood_sleep"}
                /\ handlers'[h].pc \notin {"send", "flood_sleep"}) =>
            /\ handlers'[h].remaining = {}
            /\ handlers'[h].pc = (IF handlers'[h].successful_sends > 0
                                  THEN "mark" ELSE "done")
        /\ (handlers[h].pc = "mark" /\ handlers'[h].pc = "done"
                /\ ~handlers'[h].storeError) =>
            \A r \in RowsIn(messages', Key(handlers[h].ev)) : r.fwd
      ]_vars

\* C5 happens: of two targets one send failed and one succeeded, every
\* target was attempted and the message is stored as forwarded.
C5_Witness ==
    /\ handlers[1].pc = "done" /\ handlers[1].result = "forwarded"
    /\ Cardinality(handlers[1].target_ids) = 2
    /\ handlers[1].successful_sends = 1
    /\ handlers[1].remaining = {}
    /\ \E r \in RowsOf(Key(handlers[1].ev)) : r.fwd

\* C6 as stated: while forwarding is stopped, a message that got past the
\* monitoring test and whose handler is done was not sent and is stored with
\* forwarded-state false.
C6_Original ==
    \A h \in Handlers :
        (~is_forwarding_active /\ handlers[h].pc = "done"
            /\ handlers[h].result \in RegularResults \ {"dropped"}) =>
            /\ handlers[h].target_ids = {}
            /\ \E r \in RowsOf(Key(handlers[h].ev)) : ~r.fwd

\* C6. While is_forwarding_active is false no handler is in the fan-out, and
\* a handler that reads the flag as false ends without a send and without a
\* change of the store; a log_message that commits leaves a row of the
\* message, with forwarded-state false when the row is new.
C6_StoppedForwarding ==
    /\ [](~is_forwarding_active =>
            \A h \in Handlers :
                /\ handlers[h].pc \notin {"send", "flood_sleep", "mark"}
                /\ handlers[h].target_ids = {})
    /\ [][\A h \in Handlers :
            /\ (handlers[h].pc = "fwd_check" /\ ~is_forwarding_active
                    /\ handlers'[h] # handlers[h]) =>
                /\ handlers'[h].pc = "done"
                /\ handlers'[h].result = "not_forwarded"
                /\ messages' = messages
                /\ handlers'[h].target_ids = {}
                /\ handlers'[h].successful_sends = 0
            /\ (handlers[h].pc = "log" /\ handlers'[h].pc = "fwd_check"
                    /\ ~handlers'[h].storeError) =>
                LET k == Key(handlers[h].ev) IN
                /\ RowsIn(messages', k) # {}
                /\ RowsOf(k) = {} => \A r \in RowsIn(messages', k) : ~r.fwd
         ]_vars

\* C6 happens: after /stop_forwarding a message was logged and not sent; its
\* row is stored with forwarded-state false.
C6_Witness ==
    /\ ~is_forwarding_active
    /\ handlers[1].pc = "done" /\ handlers[1].result = "not_forwarded"
    /\ \E r \in RowsOf(Key(handlers[1].ev)) : ~r.fwd
    /\ handlers[1].successful_sends = 0

\* C7. Every scheduler iteration that has reached the fetch goes back to its
\* sleep with the checkpoint set to the iteration's snapshot time.
C7_CheckpointAdvances ==
    [][(sched.pc \in {"fetch", "ai", "digest", "digest_send", "webhook", "cooldown"}
            /\ sched'.pc = "sleep") =>
            last_check_time' = sched.current_check_time
      ]_vars

\* C8. The notification targets hold the owner id in exactly one row and
\* exactly one row flagged owner, whatever adds, removes, /notify_add and
\* /notify_remove have run; a call that adds or removes the owner id returns
\* False and leaves the table as it was, and so does a command that resolves
\* to the owner id.
C8_OwnerPermanent ==
    /\ [](/\ Cardinality({r \in targets : r.id = OWNER_USER_ID}) = 1
          /\ Cardinality({r \in targets : r.is_owner}) = 1
          /\ (lastCall.user_id = OWNER_USER_ID => ~lastCall.returned))
    /\ [][/\ (lastCall' # lastCall /\ lastCall'.user_id = OWNER_USER_ID) =>
                targets' = targets
          /\ \A h \in Handlers :
                (handlers'[h] # handlers[h] /\ handlers'[h].entity = OWNER_USER_ID) =>
                    /\ targets' = targets
                    /\ handlers'[h].result \notin {"notify_added", "notify_removed"}
         ]_vars

\* C8 happens: with another target present, the removal of the owner id was
\* called and returned False, and the owner's row is there.
C8_Witness ==
    /\ lastCall = [op |-> "remove", user_id |-> OWNER_USER_ID, returned |-> FALSE]
    /\ OwnerRow \in targets
    /\ TargetRow(7) \in targets
    /\ handlers[1].result = "owner_protected"

\* C9. Once the owner's /notify_add with a reference that resolves to a user
\* other than the owner is handled, that user is a notification target and
\* the reply is the confirmation.
C9_NotifyAddAddsTarget ==
    \A h \in Handlers :
        (handlers[h].pc = "done"
            /\ handlers[h].ev.sender = OWNER_USER_ID
            /\ Lower(handlers[h].ev.token) = "/notify_add"
            /\ handlers[h].entity \in OtherUsers) =>
            /\ handlers[h].entity \in TargetIds
            /\ handlers[h].result = "notify_added"

\* C10. No step of a handler of an owner's message whose first token is a
\* command in any letter case adds or changes a message row or sends a
\* notification; the handler only replies: it never enters the monitoring
\* test, log_message or the fan-out.
C10_CommandShortCircuit ==
    [][\A h \in Handlers :
        (handlers'[h] # handlers[h] /\ handlers'[h].pc # "idle"
            /\ handlers'[h].ev.sender = OWNER_USER_ID
            /\ Lower(handlers'[h].ev.token) \in Commands) =>
            /\ messages' = messages
            /\ handlers'[h].pc \in {"done", "start_summary"}
            /\ handlers'[h].result \notin RegularResults
            /\ handlers'[h].target_ids = {}
      ]_vars

\* C10 happens: with messages stored, the owner's /STOP_FORWARDING in capital
\* letters was handled as the command and no row was added for it.
C10_Witness ==
    /\ handlers[1].pc = "done"
    /\ handlers[1].ev.sender = OWNER_USER_ID
    /\ handlers[1].ev.token = "/STOP_FORWARDING"
    /\ handlers[1].result = "stopped"
    /\ ~is_forwarding_active
    /\ messages # {}
    /\ RowsOf(Key(handlers[1].ev)) = {}

\* C11. is_forwarding_active is true at the start; a step in which the
\* handler takes the owner's /stop_forwarding leaves it false, one in which it
\* takes the owner's /start_forwarding leaves it true, and every other step
\* (any other command, any message, every pass of the fan-out) leaves it as
\* it was.
C11_ForwardingFlag ==
    /\ is_forwarding_active = TRUE
    /\ [][LET takes(c) ==
                \E h \in Handlers :
                    /\ handlers[h].pc = "idle" /\ handlers'[h].pc # "idle"
                    /\ handlers'[h].ev.sender = OWNER_USER_ID
                    /\ Lower(handlers'[h].ev.token) = c
           IN
           /\ takes("/stop_forwarding") => ~is_forwarding_active'
           /\ takes("/start_forwarding") => is_forwarding_active'
           /\ (~takes("/stop_forwarding") /\ ~takes("/start_forwarding")) =>
                    is_forwarding_active' = is_forwarding_active
         ]_vars

\* C11 happens: /stop_forwarding was handled while forwarding was stopped;
\* the flag is still false and the reply says so.
C11_Witness ==
    /\ handlers[1].pc = "done"
    /\ handlers[1].result = "already_stopped"
    /\ ~is_forwarding_active
    /\ messages # {}

\* C12. With one handler at a time: a handler whose message is already
\* stored as forwarded has not sent a notification for it.
C12_NoSecondNotification ==
    \A h \in Handlers :
        (handlers[h].pc \in {"send", "flood_sleep", "mark"}
            /\ \E r \in RowsOf(Key(handlers[h].ev)) : r.fwd) =>
            handlers[h].successful_sends = 0

\* C13. Once /start_forwarding has been answered after a summary read that
\* did not fail, the reply has a line with the exact count for every chat id
\* that has a message stored with forwarded-state false, and as many lines as
\* there are such chats.
C13_SummaryPerChat ==
    \A h \in Handlers :
        (handlers[h].pc = "done" /\ handlers[h].result = "started"
            /\ ~handlers[h].storeError) =>
            LET chats == {c \in ChatIds : Unforwarded(messages, c) # {}} IN
            /\ \A c \in chats :
                    <<chat_title(c), Cardinality(Unforwarded(messages, c))>>
                        \in handlers[h].summary_data
            /\ Cardinality(handlers[h].summary_data) = Cardinality(chats)

\* C14. The scheduler task is never over for another reason than its
\* cancellation; every step it takes from an await of the loop leaves it at
\* an await of the loop or cancelled; the step it takes from the cooldown
\* sleep is to the sleep that opens the next iteration; and the cooldown
\* sleep comes to an end, in the next iteration or in the cancellation.
C14_SchedulerSurvives ==
    /\ [](sched.pc # "ended")
    /\ [][/\ (sched.pc \in SchedAwaits /\ sched' # sched) =>
                sched'.pc \in SchedAwaits \cup {"cancelled"}
          /\ (sched.pc = "cooldown" /\ sched' # sched) =>
                sched'.pc \in {"sleep", "cancelled"}
         ]_vars
    /\ (sched.pc = "cooldown") ~> (sched.pc \in {"sleep", "cancelled"})

\* C14 happens: an iteration that found messages failed, the cooldown is
\* over and the loop is in the sleep of its next iteration, the checkpoint
\* still behind the failed iteration's snapshot.
C14_Witness ==
    /\ sched.pc = "sleep"
    /\ sched.current_check_time # None
    /\ last_check_time # sched.current_check_time
    /\ messages # {}

\* C15. No handler is ever left by an exception; log_message, failed or not,
\* is followed by the fan-out's test of the flag, and with forwarding active
\* by the fan-out; every pass of the fan-out and mark_message_forwarded,
\* failed or not, lead on; and when a handler is over its slot is as new,
\* with the store and the flag as the handler left them.
C15_FailuresContained ==
    /\ [](\A h \in Handlers : handlers[h].pc # "raised")
    /\ [][\A h \in Handlers :
            LET steps(pc) == handlers[h].pc = pc /\ handlers'[h] # handlers[h] IN
            /\ steps("log") => handlers'[h].pc = "fwd_check"
            /\ (steps("fwd_check") /\ is_forwarding_active) => handlers'[h].pc = "send"
            /\ steps("send") => handlers'[h].pc \in {"send", "flood_sleep", "mark", "done"}
            /\ steps("mark") => handlers'[h].pc = "done"
            /\ steps("done") =>
                    /\ handlers'[h] = IdleHandler
                    /\ UNCHANGED <<messages, monitored, targets, is_forwarding_active>>
         ]_vars

\* C15 happens: log_message failed for a message (no row was written) and the
\* handler is in the fan-out for it.
C15_Witness ==
    /\ handlers[1].pc = "send"
    /\ RowsOf(Key(handlers[1].ev)) = {}
    /\ handlers[1].target_ids # {}

\* ---------------------------------------------------------------- C16

\* The stored chats and users a filter names: an integer names the row with
\* that id, a string the rows with that username (or title, for a chat).
ChatsNamed(tbl, f) ==
    {c \in {r.chat : r \in tbl} :
        IF f.kind = "int" THEN c = f.i
        ELSE chat_username(c) = f.s \/ chat_title(c) = f.s}

UsersNamed(tbl, f) ==
    {u \in {r.sender : r \in tbl} \ {None} :
        IF f.kind = "int" THEN u = f.i ELSE user_username(u) = f.s}

\* Elements of a list.
Range(q) == {q[i] : i \in 1..Len(q)}

\* C16 as stated: a call of query_messages whose chat filter or sender
\* filter, whatever its value, names no stored chat or user returns the empty
\* list.
C16_Original ==
    (/\ lastCall.op = "query_messages"
     /\ \/ lastCall.chat_filter # NoFilter
              /\ ChatsNamed(lastCall.table, lastCall.chat_filter) = {}
        \/ lastCall.sender_filter # NoFilter
              /\ UsersNamed(lastCall.table, lastCall.sender_filter) = {})
        => lastCall.returned = <<>>

\* C16: a call of query_messages whose chat filter or sender filter is not
\* empty (neither "" nor 0) and names no stored chat or user returns the empty
\* list, whatever the other filters are; and every row returned under a
\* non-empty chat or sender filter is of a chat or sender the filter names.
C16_UnresolvedFilter ==
    lastCall.op = "query_messages" =>
        /\ Truthy(lastCall.chat_filter)
              /\ ChatsNamed(lastCall.table, lastCall.chat_filter) = {}
              => lastCall.returned = <<>>
        /\ Truthy(lastCall.sender_filter)
              /\ UsersNamed(lastCall.table, lastCall.sender_filter) = {}
              => lastCall.returned = <<>>
        /\ Truthy(lastCall.chat_filter) =>
               \A r \in Range(lastCall.returned) :
                   r.chat \in ChatsNamed(lastCall.table, lastCall.chat_filter)
        /\ Truthy(lastCall.sender_filter) =>
               \A r \in Range(lastCall.returned) :
                   r.sender \in UsersNamed(lastCall.table, lastCall.sender_filter)

\* A chat title that no stored chat has is asked for, with a date filter that
\* the stored messages pass, and the empty list comes back.
C16_Witness ==
    /\ lastCall.op = "query_messages"
    /\ lastCall.ok
    /\ lastCall.chat_filter = StrFilter("nonexistent")
    /\ lastCall.sender_filter = IntFilter(7)
    /\ lastCall.date_filter = "2024-01-01"
    /\ \E r \in lastCall.table : r.sender = 7 /\ r.ts < DayTicks
    /\ lastCall.returned = <<>>

\* ---------------------------------------------------------------- C17

\* The messages of a table stamped on day d: from d's 00:00:00 UTC, included,
\* to the following 00:00:00 UTC, excluded.
OnDay(tbl, d) == {r \in tbl : d * DayTicks <= r.ts /\ r.ts < (d + 1) * DayTicks}

\* The day a date filter names when the call is made at time now.
DayNamed(date_filter, now) ==
    CASE date_filter = "2024-01-01" -> 0
      [] date_filter = "2024-01-02" -> 1
      [] date_filter = "today" -> now \div DayTicks
      [] date_filter = "Yesterday" -> (now \div DayTicks) - 1

\* C17: a call of query_messages with the date filter 'today', 'yesterday'
\* or a date YYYY-MM-DD returns only messages stamped on that UTC day, midnight
\* at its start included and the following midnight excluded; with no other
\* filter and the default limit it returns all of them.
C17_DateWindow ==
    (lastCall.op = "query_messages"
        /\ lastCall.date_filter \in {"2024-01-01", "2024-01-02", "today", "Yesterday"}) =>
        LET on == OnDay(lastCall.table, DayNamed(lastCall.date_filter, MaxClock)) IN
        /\ Range(lastCall.returned) \subseteq on
        /\ (/\ lastCall.ok
            /\ lastCall.chat_filter = NoFilter
            /\ lastCall.sender_filter = NoFilter
            /\ lastCall.content_filter = ""
            /\ lastCall.limit = 25) => Range(lastCall.returned) = on

\* The messages of 2024-01-01 are asked for from a table with one message of
\* that day and one stamped exactly at the following midnight; only the first
\* comes back.
C17_Witness ==
    /\ lastCall.op = "query_messages"
    /\ lastCall.date_filter = "2024-01-01"
    /\ \E a, b \in lastCall.table :
          /\ a.ts = 0
          /\ b.ts = DayTicks
          /\ lastCall.returned = <<a>>

\* ---------------------------------------------------------------- C18

\* C18 as stated: every handler of the owner's /summary_today that has ended
\* has, after "please wait", replied with the summary or with the reason why
\* no summary could be made.
C18_FailureReplied ==
    \A h \in Handlers :
        (/\ handlers[h].pc = "done"
         /\ handlers[h].ev.sender = OWNER_USER_ID
         /\ handlers[h].ev.token = "/summary_today")
            => handlers[h].result \in {"summary", "summary_failed"}

\* ---------------------------------------------------------------- C19

\* The commands that take a chat or user reference.
ReferenceCommands == {"/monitor_add", "/monitor_remove", "/notify_add", "/notify_remove"}

\* C19: when the owner's /monitor_add, /monitor_remove, /notify_add or
\* /notify_remove comes without an argument the handler ends with the usage
\* reply, and when its reference cannot be resolved (get_entity raises) it
\* ends with an error reply; in both cases the monitored chats, the
\* notification targets and the forwarding flag are left as they were.
C19_RejectedReference ==
    [][\A h \in Handlers :
          (/\ handlers[h].pc = "idle"
           /\ handlers'[h].pc = "done"
           /\ handlers'[h].ev.sender = OWNER_USER_ID
           /\ Lower(handlers'[h].ev.token) \in ReferenceCommands
           /\ handlers'[h].entity = None)
              => /\ handlers'[h].ev.arg = "" => handlers'[h].result = "usage"
                 /\ handlers'[h].ev.arg # "" =>
                        handlers'[h].result \in {"not_found", "error"}
                 /\ UNCHANGED <<monitored, targets, is_forwarding_active>>]_vars

\* With a chat monitored, /monitor_remove with a reference that get_entity
\* does not find has been answered with the not-found reply.
C19_Witness ==
    \E h \in Handlers :
        /\ handlers[h].pc = "done"
        /\ handlers[h].ev.sender = OWNER_USER_ID
        /\ handlers[h].ev.token = "/monitor_remove"
        /\ handlers[h].ev.arg = "@ref"
        /\ handlers[h].entity = None
        /\ handlers[h].result = "not_found"
        /\ monitored # {}

\* ---------------------------------------------------------------- C20

\* The handler works on a message of the owner that is no command.
OwnerPlain(hr) ==
    hr.pc # "idle" /\ hr.ev.sender = OWNER_USER_ID /\ CommandOf(hr.ev) = ""

\* C20 as stated: every message of the owner that is no command and that
\* the monitoring test let through got past log_message.
C20_Original ==
    \A h \in Handlers :
        (OwnerPlain(handlers[h]) /\ handlers[h].pc = "done"
            /\ handlers[h].result # "dropped") => PastLog(handlers[h])

\* C20. A message of the owner whose first token is no command (a plain
\* word, a near miss, the empty text of a media-only message) goes the way of
\* any message: into the monitoring test, out of it dropped only when chats
\* are monitored and its chat is not found among them, ignored only when the
\* owner's account is the observing account itself, otherwise to log_message,
\* whose commit leaves its row, and from there, with forwarding active, into
\* the fan-out with the owner among the targets.
C20_OwnerPlainMessage ==
    [][\A h \in Handlers :
          LET a == handlers[h]
              b == handlers'[h]
          IN
          (OwnerPlain(b) /\ a # b) =>
              /\ a.pc = "idle" =>
                     \/ b.pc \in {"scope_member", "log"}
                     \/ b.pc = "done" /\ b.result = "ignored_self"
              /\ (b.pc = "done" /\ b.result = "ignored_self") =>
                     botUserId = OWNER_USER_ID
              /\ (a.pc = "idle" /\ b.pc = "scope_member") => monitored # {}
              /\ (b.pc = "done" /\ b.result = "dropped") =>
                     /\ a.pc = "scope_member"
                     /\ b.ev.chat \notin monitored \/ b.storeError
              /\ a.pc = "scope_member" =>
                     \/ b.pc = "log"
                     \/ b.pc = "done" /\ b.result \in {"dropped", "ignored_self"}
              /\ a.pc = "log" =>
                     /\ b.pc = "fwd_check"
                     /\ ~b.storeError => RowsIn(messages', Key(b.ev)) # {}
              /\ (a.pc = "fwd_check" /\ is_forwarding_active) =>
                     /\ b.pc = "send"
                     /\ OWNER_USER_ID \in b.target_ids
      ]_vars

\* The owner writes from an account that is not the observing one: a message
\* of the owner that is no command was stored and notified and its row is
\* marked forwarded.
C20_Witness ==
    /\ botUserId = 7
    /\ OwnerPlain(handlers[1])
    /\ handlers[1].pc = "done" /\ handlers[1].result = "forwarded"
    /\ \E r \in RowsOf(Key(handlers[1].ev)) : r.fwd

\* ---------------------------------------------------------------- C21

\* C21 as stated: when launch_bot_and_api has reported "shutdown complete",
\* every task that was created has ended.
C21_ShutdownAwaited ==
    tasks.launch = "reported" =>
        /\ Ended(tasks.runner)
        /\ Ended(tasks.api)
        /\ Ended(tasks.observer)
        /\ Ended(tasks.scheduler)

\* ---------------------------------------------------------------- C22

\* C22 as stated: a message is dropped by the monitoring test, both reads of
\* the store having succeeded, only if at some instant from the first read to
\* the last the monitored chats were not empty and did not contain its chat.
C22_DropOnlyOutOfScope ==
    \A h \in Handlers :
        (/\ handlers[h].pc = "done"
         /\ handlers[h].result = "dropped"
         /\ ~handlers[h].storeError
         /\ ~handlers[h].scopeReadFailed) => handlers[h].outOfScope

\* ---------------------------------------------------------------- C23

\* The event is a message of the owner whose first token is a command.
OwnerCommand(ev) == ev.sender = OWNER_USER_ID /\ Lower(ev.token) \in Commands

\* C23 as stated: an owner command that arrives in a chat outside a non-empty
\* monitored set is dropped and changes neither the flag, the monitored chats
\* nor the notification targets.
C23_Original ==
    [][\A h \in Handlers :
          (/\ handlers[h].pc = "idle" /\ handlers'[h].pc # "idle"
           /\ OwnerCommand(handlers'[h].ev)
           /\ monitored # {} /\ handlers'[h].ev.chat \notin monitored)
              => /\ handlers'[h].result = "dropped"
                 /\ UNCHANGED <<monitored, targets, is_forwarding_active>>]_vars

\* C23. Commands come before the monitoring test: no handler of an owner
\* command is ever in the monitoring test or dropped by it, and an owner
\* command that arrives in a chat outside a non-empty monitored set is
\* interpreted: /stop_forwarding and /start_forwarding leave the flag false
\* and true, and /monitor_clear, when its delete commits, empties the set.
C23_CommandsBeforeScope ==
    /\ [](\A h \in Handlers :
            OwnerCommand(handlers[h].ev) =>
                /\ handlers[h].pc # "scope_member"
                /\ handlers[h].result # "dropped")
    /\ [][\A h \in Handlers :
            (/\ handlers[h].pc = "idle" /\ handlers'[h].pc # "idle"
             /\ OwnerCommand(handlers'[h].ev)
             /\ monitored # {} /\ handlers'[h].ev.chat \notin monitored)
                => /\ handlers'[h].pc \notin {"scope_member", "log"}
                   /\ Lower(handlers'[h].ev.token) = "/stop_forwarding"
                          => ~is_forwarding_active'
                   /\ Lower(handlers'[h].ev.token) = "/start_forwarding"
                          => is_forwarding_active'
                   /\ (Lower(handlers'[h].ev.token) = "/monitor_clear"
                          /\ ~handlers'[h].storeError) => monitored' = {}
         ]_vars

\* With a monitored set that lacks the chat, the owner's /stop_forwarding sent
\* in that chat was answered and forwarding is stopped.
C23_Witness ==
    /\ monitored # {} /\ handlers[1].ev.chat \notin monitored
    /\ handlers[1].pc = "done"
    /\ handlers[1].ev.sender = OWNER_USER_ID
    /\ handlers[1].ev.token = "/stop_forwarding"
    /\ handlers[1].result = "stopped"
    /\ ~is_forwarding_active

\* ---------------------------------------------------------------- C24

\* C24 as stated: with both reads of the store succeeding, no message is
\* dropped whose chat is one that /monitor_add has put into the monitored set.
C24_AddedChatPasses ==
    \A h \in Handlers :
        (/\ handlers[h].pc = "done"
         /\ handlers[h].result = "dropped"
         /\ ~handlers[h].storeError
         /\ ~handlers[h].scopeReadFailed)
            => \A e \in monitored : chat_id_of(e) # handlers[h].ev.chat

\* C25. The list a fan-out iterates over and the list a digest iterates over
\* are never empty and hold the owner id, also when the read of the targets
\* failed; no invocation ends in the branch taken on an empty list.
C25_OwnerAlwaysTarget ==
    /\ \A h \in Handlers :
        /\ handlers[h].pc \in {"send", "flood_sleep", "mark"} =>
                OWNER_USER_ID \in handlers[h].target_ids
        /\ handlers[h].result # "no_targets"
    /\ sched.pc = "digest_send" => OWNER_USER_ID \in sched.target_ids

\* A fan-out and a digest both hold the list of a failed read, the owner
\* alone, while the table has another target.
C25_Witness ==
    /\ handlers[1].pc = "send" /\ handlers[1].storeError
    /\ handlers[1].target_ids = {OWNER_USER_ID}
    /\ sched.pc = "digest_send" /\ sched.target_ids = {OWNER_USER_ID}
    /\ TargetIds # {OWNER_USER_ID}

\* C26. A send that is rate-limited takes its target off the targets still
\* to attempt and counts no success; when the sleep is over the loop goes on
\* with the targets that remain, its target not among them, and it ends only
\* when none remains. While an invocation is in that sleep every step another
\* invocation or the scheduler is waiting to take can be taken.
C26_FloodSleepSkipsTarget ==
    /\ [][\A h \in Handlers :
            /\ (handlers[h].pc = "send" /\ handlers'[h].pc = "flood_sleep") =>
                    /\ handlers'[h].remaining \subseteq handlers[h].remaining
                    /\ Cardinality(handlers'[h].remaining)
                            = Cardinality(handlers[h].remaining) - 1
                    /\ handlers'[h].successful_sends = handlers[h].successful_sends
            /\ (handlers[h].pc = "flood_sleep" /\ handlers'[h] # handlers[h]) =>
                    /\ handlers'[h].remaining = handlers[h].remaining
                    /\ handlers'[h].pc = "send" <=> handlers[h].remaining # {}
            /\ (handlers[h].pc \in {"send", "flood_sleep"}
                    /\ handlers'[h].pc \in {"mark", "done"}) =>
                    handlers'[h].remaining = {}
        ]_vars
    /\ [](\A h \in Handlers : handlers[h].pc = "flood_sleep" =>
            /\ \A k \in Handlers \ {h} :
                /\ handlers[k].pc = "idle" => ENABLED ScopeAny(k, PlainEvents)
                /\ handlers[k].pc = "log" => ENABLED LogMessage(k)
                /\ handlers[k].pc = "fwd_check" => ENABLED FwdCheck(k)
                /\ handlers[k].pc = "send" => ENABLED SendOne(k)
                /\ handlers[k].pc = "flood_sleep" => ENABLED FloodWake(k)
                /\ handlers[k].pc = "mark" => ENABLED MarkForwarded(k)
                /\ handlers[k].pc = "done" => ENABLED Return(k)
            /\ (sched.pc = "sleep" /\ clock > sched.slept_at) => ENABLED SchedWake
            /\ sched.pc = "fetch" => ENABLED SchedFetch
            /\ sched.pc = "ai" => ENABLED SchedSummary
            /\ sched.pc = "digest" => ENABLED SchedDigest
            /\ sched.pc = "digest_send" => ENABLED SchedDigestSend
            /\ sched.pc = "webhook" => ENABLED SchedWebhook
            /\ sched.pc = "cooldown" => ENABLED SchedCooldown)

\* An invocation sleeps after a rate-limited send with its other target
\* still to attempt and no success counted, while the other invocation is in
\* its own fan-out and the scheduler is in its iteration.
C26_Witness ==
    /\ handlers[2].pc = "flood_sleep" /\ handlers[2].target_ids = {OWNER_USER_ID, 7}
    /\ Cardinality(handlers[2].remaining) = 1 /\ handlers[2].successful_sends = 0
    /\ handlers[1].pc = "send"
    /\ sched.pc = "fetch"

\* C27. A /notify_remove that is confirmed named a target other than the owner
\* and leaves the table without it; a /notify_remove that is rejected leaves
\* the table as it was, and the id of one rejected with a successful store
\* access was not a target to remove. Every list a fan-out or a digest reads
\* holds only the owner and ids that are in the table at that moment, so a
\* list read after the removal is without the removed target, and every send
\* goes to a target of the list read.
C27_RemovedTargetNotNotified ==
    /\ [][\A h \in Handlers :
            /\ (handlers[h].pc = "idle" /\ handlers'[h].pc = "done"
                    /\ handlers'[h].result = "notify_removed") =>
                    /\ handlers'[h].entity # OWNER_USER_ID
                    /\ handlers'[h].entity \in {r.id : r \in targets}
                    /\ handlers'[h].entity \notin {r.id : r \in targets'}
                    /\ targets' = {r \in targets : r.id # handlers'[h].entity}
            /\ (handlers[h].pc = "idle" /\ handlers'[h].pc = "done"
                    /\ handlers'[h].result \in {"notify_remove_failed", "owner_protected"}) =>
                    /\ targets' = targets
                    /\ ~handlers'[h].storeError =>
                            \A r \in targets : r.id = handlers'[h].entity => r.is_owner
            /\ (handlers[h].pc = "fwd_check" /\ handlers'[h].pc = "send") =>
                    handlers'[h].target_ids \subseteq
                        {r.id : r \in targets} \cup {OWNER_USER_ID}
            /\ (handlers[h].pc = "send" /\ handlers'[h] # handlers[h]) =>
                    handlers[h].remaining \ handlers'[h].remaining
                        \subseteq handlers[h].target_ids
        ]_vars
    /\ [][(sched.pc = "digest" /\ sched'.pc = "digest_send") =>
            sched'.target_ids \subseteq {r.id : r \in targets} \cup {OWNER_USER_ID}
        ]_vars
    /\ [](\A h \in Handlers : handlers[h].remaining \subseteq handlers[h].target_ids)

\* Target 7 has been removed and the removal confirmed; a fan-out and a digest
\* have then read their lists with success, the owner alone.
C27_Witness ==
    /\ 7 \notin {r.id : r \in targets}
    /\ handlers[1].pc = "send" /\ ~handlers[1].storeError
    /\ handlers[1].remaining = {OWNER_USER_ID}
    /\ handlers[1].target_ids = {OWNER_USER_ID}
    /\ sched.pc = "digest_send" /\ sched.target_ids = {OWNER_USER_ID}

\* C28. A /summary_today or /query whose call of the summarizer found the
\* primary provider failing, with no fallback configured, gets the primary's
\* failure value back and replies with the failure: no such command ends in
\* an exception.
C28_PrimaryFailureReturned ==
    \A h \in Handlers :
        (handlers[h].pc = "done"
            /\ Lower(handlers[h].ev.token) \in {"/summary_today", "/query"}) =>
            handlers[h].result # "exception"

\* C29. A call of mark_message_forwarded(chat_id, message_id) leaves the keys
\* of the table as they were (no row is created for a key without one, none is
\* removed) and every row of another key as it was; the row of its key is
\* forwarded afterwards when the update committed, with its timestamp kept, and
\* as it was when the store failed. A second call with the same key after a
\* committed one changes nothing.
C29_MarkExactlyOne ==
    [][lastCall'.op = "mark" =>
        LET k == <<lastCall'.chat_id, lastCall'.message_id>> IN
        /\ {Key(r) : r \in messages'} = {Key(r) : r \in messages}
        /\ \A r \in messages : Key(r) # k => r \in messages'
        /\ \A r \in messages : Key(r) = k =>
                IF lastCall'.committed
                THEN [r EXCEPT !.fwd = TRUE] \in messages'
                ELSE r \in messages'
        /\ (lastCall.op = "mark" /\ lastCall.committed
                /\ lastCall.chat_id = k[1] /\ lastCall.message_id = k[2]) =>
                messages' = messages
      ]_vars

\* Message 1 of chat 7 has been marked, and message 1 of the other chat is
\* stored unforwarded.
C29_Witness ==
    /\ lastCall.op = "mark" /\ lastCall.committed
    /\ lastCall.chat_id = 7 /\ lastCall.message_id = 1
    /\ \E r \in messages : r.chat = 7 /\ r.mid = 1 /\ r.fwd
    /\ \E r \in messages : r.chat = -1005 /\ r.mid = 1 /\ ~r.fwd

\* C30. A call of query_messages whose content filter names a media kind
\* ('photos' for photo, 'video' for video) returns only messages stored with
\* that media_type.
C30_MediaKindOnly ==
    (lastCall.op = "query_messages" /\ lastCall.content_filter \in {"photos", "video"}) =>
        LET kind == IF lastCall.content_filter = "photos" THEN "photo" ELSE "video" IN
        \A r \in Range(lastCall.returned) : r.media = kind

C32_CommittedRowFetched ==
    [][\A r \in messages' \ messages :
            r.ts > 0 =>
                \/ Key(r) \in sched'.messages_since_last
                \/ r.ts > last_check_time'
      ]_vars

C34_ForwardedStays ==
    [][\A r \in messages : r.fwd => r \in messages']_vars

\* A forwarded message was delivered again, every send of the second fan-out
\* failed, and the stored row is still forwarded.
C34_Witness ==
    /\ handlers[1].pc = "done" /\ handlers[1].result = "all_failed"
    /\ \E r \in RowsOf(Key(handlers[1].ev)) : r.fwd

\* C35. While the account's own id is known, no handler of a message sent by
\* the account stores the message (log_message commits its row) or sends a
\* notification for it.
C35_SelfNeverProcessed ==
    [][\A h \in Handlers :
            (botUserId # None /\ handlers[h].ev.sender = botUserId) =>
                /\ handlers[h].pc = "log" => messages' = messages
                /\ handlers[h].pc = "send" =>
                        handlers'[h].successful_sends = handlers[h].successful_sends
      ]_vars

\* C36. Whatever is_forwarding_active is: an iteration of the scheduler that
\* awaits the summary of its batch goes on to the digest when a summary comes
\* back; from there it reads the targets and then sends to the list read, the
\* ids of all targets, or the owner alone when the read failed.
C36_DigestNotGated ==
    /\ [](sched.pc = "ai" => ENABLED (SchedSummary /\ sched'.pc = "digest"))
    /\ [][(sched.pc = "digest" /\ sched' # sched) =>
            /\ sched'.pc \in {"digest_send", "cancelled"}
            /\ sched'.pc = "digest_send" =>
                    sched'.target_ids \in {TargetIds, {OWNER_USER_ID}}
        ]_vars
    /\ [][(sched.pc = "digest_send" /\ sched' # sched) =>
            sched'.pc \in {"webhook", "cancelled"}
        ]_vars

\* Forwarding is stopped and the digest of an iteration is being sent to the
\* owner and the other target.
C36_Witness ==
    /\ ~is_forwarding_active
    /\ sched.pc = "digest_send"
    /\ sched.target_ids = {OWNER_USER_ID, 7}

\* C37: the /monitor_add success confirmation is replied only when the resolved
\* chat id is in the monitored set at the time of the reply; a store failure
\* inside add_monitored_chat is not followed by the confirmation.
C37_ConfirmedOnlyIfStored ==
    [][\A h \in Handlers :
            (/\ handlers[h].pc = "idle"
             /\ handlers'[h].pc = "done"
             /\ handlers'[h].result = "monitor_added") =>
                /\ ~handlers'[h].storeError
                /\ handlers'[h].entity \in monitored']_vars

\* C38: a call of query_messages with a date filter that is none of 'today',
\* 'yesterday' (in any case) or a valid YYYY-MM-DD date never returns rows
\* unrestricted by date: the rows it returns, if any, all lie within one UTC
\* day, as under any date clause the conjunction could hold.
C38_UnparsedDateRestricts ==
    (/\ lastCall.op = "query_messages"
     /\ lastCall.date_filter \notin {"", "today", "Yesterday", "2024-01-01", "2024-01-02"}) =>
        \E d \in 0..(MaxClock \div DayTicks) :
            Range(lastCall.returned) \subseteq OnDay(lastCall.table, d)

====
